---- MODULE Spec2Model ----
(***************************************************************************)
(* Controllers of the video-sharing backend: likes, videos, comments and   *)
(* subscriptions.  Every handler is an async function; each awaited        *)
(* database call is one atomic step, and the code between two awaits runs  *)
(* with the step that follows the first.  Requests run in slots, so the    *)
(* steps of different requests interleave.                                 *)
(***************************************************************************)
EXTENDS Integers, Sequences, FiniteSets, TLC

VARIABLES
    videos,     \* Video collection: _id -> document
    comments,   \* Comment collection: _id -> document
    likes,      \* Like collection: set of documents
    subs,       \* Subscription collection: set of documents
    assets,     \* media store: the public ids of the assets it holds
    nextId,     \* next fresh _id of a created document or public id of an upload
    reqs,       \* requests in flight: slot -> handler position and locals
    last,       \* the response sent most recently, until the next request begins
    prev,       \* the response before it, while requests run one at a time
    served      \* video _id -> getVideoById responses sent with status 200

vars == <<videos, comments, likes, subs, assets, nextId, reqs, last, prev, served>>

----------------------------------------------------------------------------
(* Bounds of the model.                                                    *)

NumSlots == 2      \* requests that can be in flight at once
MaxIds == 2        \* Like / Subscription documents ever created
MaxViews == 3      \* getVideoById calls that reach the increment
MaxUploads == 3    \* uploads the media store accepts

Slots == 1..NumSlots

----------------------------------------------------------------------------
(* Strings and ObjectIds.  A string is a sequence of one-character         *)
(* strings.  An ObjectId is named by a short name; Hex gives its           *)
(* toString(), 24 lower-case hex digits.                                   *)

NoId == "none"          \* undefined / null / no such document
UserIds == {"u1", "u2"} \* the User collection (read only)
GhostUser == "u9"       \* a well-formed id that names no user
VideoIds == {"v1", "v2"}
GhostVideo == "v9"      \* a well-formed id that names no video
CommentIds == {"c1", "c2"}
GhostComment == "c9"
ObjectIds == UserIds \cup VideoIds \cup CommentIds \cup {GhostUser, GhostVideo, GhostComment}

HexLowerChars == {"0", "1", "2", "3", "4", "5", "6", "7", "8", "9", "a", "b", "c", "d", "e", "f"}
HexUpperChars == {"A", "B", "C", "D", "E", "F"}

Rep(c, n) == [i \in 1..n |-> c]

HexEnds ==
    [u1 |-> <<"a", "1">>, u2 |-> <<"a", "2">>, u9 |-> <<"a", "9">>,
     v1 |-> <<"b", "1">>, v2 |-> <<"b", "2">>, v3 |-> <<"b", "3">>, v9 |-> <<"b", "9">>,
     c1 |-> <<"c", "1">>, c2 |-> <<"c", "2">>, c9 |-> <<"c", "9">>]

\* ObjectId.prototype.toString(): the id as 24 lower-case hex digits.
Hex(id) == <<HexEnds[id][1]>> \o Rep("0", 22) \o <<HexEnds[id][2]>>

ToLowerChar(c) ==
    CASE c = "A" -> "a" [] c = "B" -> "b" [] c = "C" -> "c"
      [] c = "D" -> "d" [] c = "E" -> "e" [] c = "F" -> "f"
      [] OTHER -> c

ToUpperChar(c) ==
    CASE c = "a" -> "A" [] c = "b" -> "B" [] c = "c" -> "C"
      [] c = "d" -> "D" [] c = "e" -> "E" [] c = "f" -> "F"
      [] OTHER -> c

Lower(s) == [i \in 1..Len(s) |-> ToLowerChar(s[i])]
Upper(s) == [i \in 1..Len(s) |-> ToUpperChar(s[i])]

\* mongoose.Types.ObjectId.isValid on a string: 24 hex digits of either case.
ObjectIdIsValid(s) ==
    /\ Len(s) = 24
    /\ \A i \in 1..Len(s) : s[i] \in HexLowerChars \cup HexUpperChars

\* The cast of a valid id string to an ObjectId (new ObjectId(s), and the
\* cast mongoose applies to a query or document field): hex digits are read
\* without regard to case.
CastObjectId(s) ==
    IF \E id \in ObjectIds : Hex(id) = Lower(s)
    THEN CHOOSE id \in ObjectIds : Hex(id) = Lower(s)
    ELSE NoId

\* String.prototype.trim(), on strings of letters and blanks.
RECURSIVE Trim(_)
Trim(str) ==
    IF Len(str) = 0 THEN str
    ELSE IF Head(str) = " " THEN Trim(Tail(str))
    ELSE IF str[Len(str)] = " " THEN Trim(SubSeq(str, 1, Len(str) - 1))
    ELSE str

\* String.prototype.toString() of a route parameter: the string itself.
StrToString(s) == s

\* The route-parameter strings requests carry for an id: the ids as
\* toString() prints them, and a malformed one.
IdStrings(ids) == {Hex(id) : id \in ids} \cup {<<"x", "y", "z">>}

\* req.user?._id: an authenticated user, or undefined.
Callers == UserIds \cup {NoId}

----------------------------------------------------------------------------
(* Requests and responses.                                                 *)

Snap ==
    [videos |-> videos, comments |-> comments, likes |-> likes, subs |-> subs,
     assets |-> assets]

Idle == [op |-> "idle"]
Busy(s) == reqs[s].op # "idle"
Quiescent == \A s \in Slots : ~Busy(s)

NoResp == [op |-> "none", status |-> 0, alone |-> FALSE]

\* The slot a new request takes: the lowest idle one.
FreeSlot(s) == ~Busy(s) /\ \A t \in Slots : t < s => Busy(t)

\* A request is alone when no other request is in flight from its first
\* step to its response.  The database as it was at the first step (pre) is
\* kept with a request, and with its response, only while requests run one
\* at a time.
NotAlone(r) == IF r.op \in {"idle", "none"} THEN r ELSE [r EXCEPT !.alone = FALSE, !.pre = <<>>]

Stamp(r, alone, pre) ==
    [r EXCEPT !.alone = alone, !.pre = IF alone /\ r.status = 200 THEN pre ELSE <<>>]

\* What is remembered of a response once the next request begins: the
\* whole of it when it answered with success a toggle that ran alone, and
\* nothing otherwise.
Older(resp) ==
    IF /\ resp.op \in {"toggleVideoLike", "toggleCommentLike", "toggleSubscription"}
       /\ resp.alone /\ resp.status = 200
    THEN resp ELSE NoResp

\* served, once response resp is sent.
Count(resp) ==
    IF resp.op = "getVideoById" /\ resp.status = 200
    THEN [served EXCEPT ![CastObjectId(resp.arg)] = @ + 1]
    ELSE served

\* A new request takes slot s with locals r.
Begin(s, r) ==
    /\ reqs' = [t \in Slots |->
                  IF t = s THEN [r EXCEPT !.alone = Quiescent, !.pre = IF Quiescent THEN Snap ELSE <<>>]
                  ELSE NotAlone(reqs[t])]
    /\ last' = NoResp
    /\ prev' = IF Quiescent THEN Older(last) ELSE NoResp
    /\ UNCHANGED served

\* A request is answered in its first step (a validation error, a 404, or a
\* handler with a single database call).
Answer(resp) ==
    /\ reqs' = [t \in Slots |-> NotAlone(reqs[t])]
    /\ last' = Stamp(resp, Quiescent, Snap)
    /\ prev' = IF Quiescent THEN Older(last) ELSE NoResp
    /\ served' = Count(resp)

\* The request in slot s moves on with locals r.
Continue(s, r) ==
    /\ reqs' = [reqs EXCEPT ![s] = r]
    /\ UNCHANGED <<last, prev, served>>

\* The request in slot s is answered; its body and the calls it issued,
\* those of its last step included (resp.calls), stay with the response.
Finish(s, resp) ==
    /\ reqs' = [reqs EXCEPT ![s] = Idle]
    /\ last' = [Stamp(resp, reqs[s].alone, reqs[s].pre)
                   EXCEPT !.calls = reqs[s].calls \o resp.calls, !.body = reqs[s].body]
    /\ prev' = IF reqs[s].alone THEN prev ELSE NoResp
    /\ served' = Count(resp)

NoDoc == [_id |-> 0]    \* findOne / findById found nothing

Req(op, user, arg, pc) ==
    [op |-> op, user |-> user, arg |-> arg, pc |-> pc, doc |-> NoDoc,
     comment |-> NoDoc, alone |-> FALSE, pre |-> <<>>, calls |-> <<>>,
     body |-> <<>>, fields |-> <<>>]

Resp(op, user, arg, status, data) ==
    [op |-> op, user |-> user, arg |-> arg, status |-> status, data |-> data,
     alone |-> FALSE, pre |-> <<>>, calls |-> <<>>, body |-> <<>>]

\* A call a request issued to the media store or a write it issued to the
\* database, as kept in the calls of the request: what was called, on what,
\* and whether it succeeded.
Call(name, what, ok) == [call |-> name, what |-> what, ok |-> ok]

\* The request r after issuing call c.
Issued(r, c) == [r EXCEPT !.calls = Append(@, c)]

NoData == [none |-> TRUE]

----------------------------------------------------------------------------
(* Collections.                                                            *)

\* Model.findById(id): the document, or NoDoc.
FindById(coll, id) == IF id \in DOMAIN coll THEN coll[id] ELSE NoDoc

\* The documents of a set in the order of their _id (the order of creation).
RECURSIVE InIdOrder(_)
InIdOrder(docs) ==
    IF docs = {} THEN <<>>
    ELSE LET first == CHOOSE d \in docs : \A e \in docs : d._id <= e._id
         IN <<first>> \o InIdOrder(docs \ {first})

\* The elements of a sequence, with their multiplicity.
SeqToBag(q) == [x \in {q[i] : i \in DOMAIN q} |-> Cardinality({i \in DOMAIN q : q[i] = x})]

----------------------------------------------------------------------------
(* Media store (utils/cloudinary.js).                                      *)

\* The public ids the media store gives to uploads, in order.
UploadIds == <<"n1", "n2", "n3", "n4", "n5", "n6">>

\* The URL of the asset with a public id.
UrlOf(publicId) == <<"url", publicId>>

\* uploadOnCloudinary(localFilePath), for a path that is given: the
\* response of the media store, with url and public_id, when the upload
\* succeeds (ok); when it fails the catch block unlinks the local file and
\* returns null, and fs.unlinkSync throws, so that the call rejects (threw),
\* when the local file no longer exists.
UploadOnCloudinary(ok, exists) ==
    IF ok THEN [url |-> UrlOf(UploadIds[nextId]), public_id |-> UploadIds[nextId],
                threw |-> FALSE]
    ELSE [url |-> UrlOf(NoId), public_id |-> NoId, threw |-> ~exists]

\* A media delete whose failure is thrown to the handler.
DeleteFromCloudinaryThrows(publicId, ok) ==
    [assets |-> IF ok THEN assets \ {publicId} ELSE assets, threw |-> ~ok]

\* deleteFromCloudinary(publicId, resourceType): the media store without
\* the asset, or as it was when the call failed; the error is caught and
\* logged, and nothing is thrown to the handler.
DeleteFromCloudinary(publicId, ok) ==
    [assets |-> IF ok THEN assets \ {publicId} ELSE assets, threw |-> FALSE]

----------------------------------------------------------------------------
(* Like controller.                                                        *)

\* The Like schema declares no unique index: create never fails on a
\* duplicate.
LikeUniqueIndex == FALSE

\* Like.findOne({video, likedBy}): the documents the filter matches.
VideoLikeMatches(video, user) ==
    {d \in likes : d.video = video /\ d.likedBy = user}

\* Like.findOne({comment, likedBy}): the documents the filter matches.
CommentLikeMatches(comment, user) ==
    {d \in likes : d.comment = comment /\ d.likedBy = user}

\* The document toggleVideoLike creates.
NewVideoLike(id, video, user) ==
    [_id |-> id, video |-> video, comment |-> NoId, likedBy |-> user]

\* A comment Like without the video of its comment.
NewCommentLikeNoVideo(id, comment, commentDoc, user) ==
    [_id |-> id, video |-> NoId, comment |-> comment, likedBy |-> user]

\* The document toggleCommentLike creates: comment.video is stored with it.
NewCommentLike(id, comment, commentDoc, user) ==
    [_id |-> id, video |-> commentDoc.video, comment |-> comment, likedBy |-> user]

\* Like.deleteOne({_id}).
LikeDeleteOne(id) == {d \in likes : d._id # id}

\* toggleVideoLike up to Like.findOne: validation, Video.findById, the
\* authentication test.
ToggleVideoLikeBegin(s, user, videoId) ==
    /\ FreeSlot(s)
    /\ UNCHANGED <<videos, comments, likes, subs, nextId, assets>>
    /\ IF Len(videoId) = 0 \/ ~ObjectIdIsValid(videoId)
       THEN Answer(Resp("toggleVideoLike", user, videoId, 400, NoData))
       ELSE IF FindById(videos, CastObjectId(videoId)) = NoDoc
       THEN Answer(Resp("toggleVideoLike", user, videoId, 404, NoData))
       ELSE IF user = NoId
       THEN Answer(Resp("toggleVideoLike", user, videoId, 401, NoData))
       ELSE Begin(s, Req("toggleVideoLike", user, videoId, "findOne"))

\* await Like.findOne({video: videoId, likedBy: userId})
ToggleVideoLikeFind(s) ==
    /\ reqs[s].op = "toggleVideoLike" /\ reqs[s].pc = "findOne"
    /\ UNCHANGED <<videos, comments, likes, subs, nextId, assets>>
    /\ LET m == VideoLikeMatches(CastObjectId(reqs[s].arg), reqs[s].user) IN
       IF m = {}
       THEN Continue(s, [reqs[s] EXCEPT !.pc = "write", !.doc = NoDoc])
       ELSE \E d \in m : Continue(s, [reqs[s] EXCEPT !.pc = "write", !.doc = d])

\* await Like.deleteOne(...) or await Like.create(...), then the response.
ToggleVideoLikeWrite(s) ==
    /\ reqs[s].op = "toggleVideoLike" /\ reqs[s].pc = "write"
    /\ UNCHANGED <<videos, comments, subs, assets>>
    /\ LET r == reqs[s]
           video == CastObjectId(r.arg)
       IN IF r.doc # NoDoc
          THEN /\ likes' = LikeDeleteOne(r.doc._id)
               /\ UNCHANGED nextId
               /\ Finish(s, Resp(r.op, r.user, r.arg, 200, [isLiked |-> FALSE]))
          ELSE IF LikeUniqueIndex /\ VideoLikeMatches(video, r.user) # {}
          THEN /\ UNCHANGED <<likes, nextId>>
               /\ Finish(s, Resp(r.op, r.user, r.arg, 500, NoData))
          ELSE /\ nextId <= MaxIds
               /\ likes' = likes \cup {NewVideoLike(nextId, video, r.user)}
               /\ nextId' = nextId + 1
               /\ Finish(s, Resp(r.op, r.user, r.arg, 200, [isLiked |-> TRUE]))

\* toggleCommentLike up to Like.findOne: validation, Comment.findById (the
\* comment found stays in the request), the authentication test.
ToggleCommentLikeBegin(s, user, commentId) ==
    /\ FreeSlot(s)
    /\ UNCHANGED <<videos, comments, likes, subs, nextId, assets>>
    /\ IF Len(commentId) = 0 \/ ~ObjectIdIsValid(commentId)
       THEN Answer(Resp("toggleCommentLike", user, commentId, 400, NoData))
       ELSE IF FindById(comments, CastObjectId(commentId)) = NoDoc
       THEN Answer(Resp("toggleCommentLike", user, commentId, 404, NoData))
       ELSE IF user = NoId
       THEN Answer(Resp("toggleCommentLike", user, commentId, 401, NoData))
       ELSE Begin(s, [Req("toggleCommentLike", user, commentId, "findOne")
                        EXCEPT !.comment = FindById(comments, CastObjectId(commentId))])

\* await Like.findOne({comment: commentId, likedBy: userId})
ToggleCommentLikeFind(s) ==
    /\ reqs[s].op = "toggleCommentLike" /\ reqs[s].pc = "findOne"
    /\ UNCHANGED <<videos, comments, likes, subs, nextId, assets>>
    /\ LET m == CommentLikeMatches(CastObjectId(reqs[s].arg), reqs[s].user) IN
       IF m = {}
       THEN Continue(s, [reqs[s] EXCEPT !.pc = "write", !.doc = NoDoc])
       ELSE \E d \in m : Continue(s, [reqs[s] EXCEPT !.pc = "write", !.doc = d])

\* await Like.deleteOne(...) or await Like.create(...), then the response.
ToggleCommentLikeWrite(s) ==
    /\ reqs[s].op = "toggleCommentLike" /\ reqs[s].pc = "write"
    /\ UNCHANGED <<videos, comments, subs, assets>>
    /\ LET r == reqs[s]
           comment == CastObjectId(r.arg)
       IN IF r.doc # NoDoc
          THEN /\ likes' = LikeDeleteOne(r.doc._id)
               /\ UNCHANGED nextId
               /\ Finish(s, Resp(r.op, r.user, r.arg, 200, [isLiked |-> FALSE]))
          ELSE IF LikeUniqueIndex /\ CommentLikeMatches(comment, r.user) # {}
          THEN /\ UNCHANGED <<likes, nextId>>
               /\ Finish(s, Resp(r.op, r.user, r.arg, 500, NoData))
          ELSE /\ nextId <= MaxIds
               /\ likes' = likes \cup {NewCommentLike(nextId, comment, r.comment, r.user)}
               /\ nextId' = nextId + 1
               /\ Finish(s, Resp(r.op, r.user, r.arg, 200, [isLiked |-> TRUE]))

\* The aggregation of getLikedVideos: the caller's Likes whose video field is
\* set, joined to the video ($unwind drops a Like whose video is gone) and to
\* the video's owner ($unwind drops a video whose owner is gone); one entry
\* per Like that is left.
LikedVideosPipeline(user) ==
    LET matched == {d \in likes : d.likedBy = user /\ d.video # NoId}
        joined == {d \in matched : d.video \in DOMAIN videos}
        owned == {d \in joined : videos[d.video].owner \in UserIds}
        ordered == InIdOrder(owned)
    IN [i \in 1..Len(ordered) |->
          [_id |-> ordered[i].video,
           views |-> videos[ordered[i].video].views,
           isPublished |-> videos[ordered[i].video].isPublished,
           owner |-> [_id |-> videos[ordered[i].video].owner]]]

\* getLikedVideos: the authentication test and the aggregation.
GetLikedVideos(s, user) ==
    /\ FreeSlot(s)
    /\ UNCHANGED <<videos, comments, likes, subs, nextId, assets>>
    /\ IF user = NoId
       THEN Answer(Resp("getLikedVideos", user, <<>>, 401, NoData))
       ELSE Answer(Resp("getLikedVideos", user, <<>>, 200,
                        [videos |-> LikedVideosPipeline(user)]))

\* A stored video and a stored comment, as publishAVideo and addComment
\* create them.
VideoDoc(owner, title, description, createdAt, videoPublicId, thumbnailPublicId) ==
    [owner |-> owner, title |-> title, description |-> description,
     views |-> 0, isPublished |-> TRUE, createdAt |-> createdAt,
     videoFile |-> UrlOf(videoPublicId), videoPublicId |-> videoPublicId,
     thumbnail |-> UrlOf(thumbnailPublicId), thumbnailPublicId |-> thumbnailPublicId]

\* The assets the stored videos refer to.
AssetsOf(vs) ==
    {vs[v].videoPublicId : v \in DOMAIN vs} \cup {vs[v].thumbnailPublicId : v \in DOMAIN vs}

CommentDoc(video, owner) == [video |-> video, owner |-> owner, content |-> <<"h", "i">>]

\* One video of u1 with one comment of u2 on it; no Like yet.
InitLikes ==
    /\ videos = [v \in {"v1"} |-> VideoDoc("u1", <<"c", "a", "t">>, <<>>, 1, "pv1", "pt1")]
    /\ comments = [c \in {"c1"} |-> CommentDoc("v1", "u2")]
    /\ likes = {}
    /\ subs = {}
    /\ assets = AssetsOf(videos)
    /\ nextId = 1
    /\ reqs = [s \in Slots |-> Idle]
    /\ last = NoResp
    /\ prev = NoResp
    /\ served = [v \in VideoIds |-> 0]

NextLikes ==
    \/ \E s \in Slots, user \in Callers, videoId \in IdStrings({"v1", GhostVideo}) :
          ToggleVideoLikeBegin(s, user, videoId)
    \/ \E s \in Slots : ToggleVideoLikeFind(s)
    \/ \E s \in Slots : ToggleVideoLikeWrite(s)
    \/ \E s \in Slots, user \in Callers, commentId \in IdStrings({"c1", GhostComment}) :
          ToggleCommentLikeBegin(s, user, commentId)
    \/ \E s \in Slots : ToggleCommentLikeFind(s)
    \/ \E s \in Slots : ToggleCommentLikeWrite(s)
    \/ \E s \in Slots, user \in Callers : GetLikedVideos(s, user)

SpecLikes == InitLikes /\ [][NextLikes]_vars

\* What a Like is a like of: its comment when it has one, else its video.
LikeTarget(d) == IF d.comment # NoId THEN d.comment ELSE d.video

\* A Like of the video itself.
IsVideoLike(d) == d.video # NoId /\ d.comment = NoId

\* The Likes of a collection without their _id, with their multiplicity.
LikeContent(L) ==
    LET strip(d) == [video |-> d.video, comment |-> d.comment, likedBy |-> d.likedBy]
    IN [c \in {strip(d) : d \in L} |-> Cardinality({d \in L : strip(d) = c})]

IsToggleLike(r) == r.op \in {"toggleVideoLike", "toggleCommentLike"}

\* A response that answers with success a request that ran alone.
AloneOk(r) == r.op # "none" /\ r.alone /\ r.status = 200

SameCall(a, b) ==
    a.op = b.op /\ a.user = b.user /\ CastObjectId(a.arg) = CastObjectId(b.arg)

\* Whether collection L holds a Like of the (target, liker) pair of toggle r.
PairLiked(L, r) ==
    \E d \in L :
        /\ d.likedBy = r.user
        /\ LikeTarget(d) = CastObjectId(r.arg)
        /\ (r.op = "toggleVideoLike") = IsVideoLike(d)

\* C2: with no request in flight, a (liker, target) pair has at most one Like.
C2_OneLikePerPair ==
    Quiescent =>
        \A d1, d2 \in likes :
            (d1.likedBy = d2.likedBy /\ LikeTarget(d1) = LikeTarget(d2)) => d1 = d2

\* C3: two successful toggles of the same (target, liker) pair, one after the
\* other with nothing in between, leave the Likes as they were, and the Like
\* of the pair exists after the first exactly when it did not before.
C3_DoubleToggleRestores ==
    (/\ Quiescent
     /\ AloneOk(last) /\ IsToggleLike(last)
     /\ AloneOk(prev) /\ IsToggleLike(prev)
     /\ SameCall(prev, last)) =>
        /\ LikeContent(likes) = LikeContent(prev.pre.likes)
        /\ PairLiked(last.pre.likes, prev) = ~PairLiked(prev.pre.likes, prev)

\* C4: toggleVideoLike(V, B) answers isLiked = TRUE when B had not liked V,
\* its isLiked tells whether a Like of V by B exists afterwards, and a
\* following getLikedVideos(B) holds V exactly when isLiked was TRUE.
C4_ToggleVideoLikeAnswer ==
    /\ (Quiescent /\ AloneOk(last) /\ last.op = "toggleVideoLike") =>
          /\ ~PairLiked(last.pre.likes, last) => last.data.isLiked
          /\ last.data.isLiked = PairLiked(likes, last)
    /\ (/\ Quiescent
        /\ AloneOk(last) /\ last.op = "getLikedVideos"
        /\ AloneOk(prev) /\ prev.op = "toggleVideoLike" /\ prev.user = last.user) =>
          (prev.data.isLiked =
             (\E i \in DOMAIN last.data.videos :
                 last.data.videos[i]._id = CastObjectId(prev.arg)))

\* C5: getLikedVideos lists one entry per Like of the caller that is a like
\* of a video itself, and nothing for a Like of a comment.
C5_LikedVideosAreVideoLikes ==
    (Quiescent /\ AloneOk(last) /\ last.op = "getLikedVideos") =>
        \A v \in VideoIds :
            Cardinality({i \in DOMAIN last.data.videos : last.data.videos[i]._id = v})
              = Cardinality({d \in likes : /\ d.likedBy = last.user
                                           /\ IsVideoLike(d)
                                           /\ d.video = v
                                           /\ v \in DOMAIN videos
                                           /\ videos[v].owner \in UserIds})

\* C6: every Like has exactly one of its video and its comment set.
C6_ExactlyOneReference ==
    \A d \in likes : (d.video # NoId) # (d.comment # NoId)

----------------------------------------------------------------------------
(* Video controller.                                                       *)

\* The aggregation of getVideoById: the video of that _id joined to its
\* owner; $unwind drops a video whose owner is gone.  The views read here
\* stay in the request (foundVideo).
VideoByIdPipeline(id) ==
    IF id \in DOMAIN videos /\ videos[id].owner \in UserIds
    THEN [_id |-> id, views |-> videos[id].views,
          isPublished |-> videos[id].isPublished,
          owner |-> [_id |-> videos[id].owner]]
    ELSE NoDoc

\* A read-modify-write in place of $inc: the views the request read, plus 1.
IncViewsFromRead(doc, found) == [doc EXCEPT !.views = found.views + 1]

\* The update of findByIdAndUpdate(videoId, {$inc: {views: 1}}): applied by
\* the database to the stored document, whatever the request read before.
IncViews(doc, found) == [doc EXCEPT !.views = @ + 1]

\* A response computed from the aggregation: the views read, plus 1.
ViewsAnsweredFromRead(updatedVideo, foundVideo) == foundVideo.views + 1

\* foundVideo.views = updatedVideo.views
ViewsAnswered(updatedVideo, foundVideo) == updatedVideo.views

\* getVideoById up to findByIdAndUpdate: validation and the aggregation.
GetVideoByIdBegin(s, videoId) ==
    /\ FreeSlot(s)
    /\ UNCHANGED <<videos, comments, likes, subs, nextId, assets>>
    /\ IF Len(videoId) = 0 \/ ~ObjectIdIsValid(videoId)
       THEN Answer(Resp("getVideoById", NoId, videoId, 400, NoData))
       ELSE IF VideoByIdPipeline(CastObjectId(videoId)) = NoDoc
       THEN Answer(Resp("getVideoById", NoId, videoId, 404, NoData))
       ELSE Begin(s, [Req("getVideoById", NoId, videoId, "inc")
                        EXCEPT !.doc = VideoByIdPipeline(CastObjectId(videoId))])

\* await Video.findByIdAndUpdate(videoId, {$inc: {views: 1}}, {new: true}),
\* then the response: foundVideo with the views of the updated document.
\* When the video is gone the update returns null and reading its views
\* throws.
GetVideoByIdInc(s) ==
    /\ reqs[s].op = "getVideoById" /\ reqs[s].pc = "inc"
    /\ UNCHANGED <<comments, likes, subs, nextId, assets>>
    /\ LET r == reqs[s]
           id == CastObjectId(r.arg)
       IN IF id \notin DOMAIN videos
          THEN /\ UNCHANGED videos
               /\ Finish(s, Resp(r.op, r.user, r.arg, 500, NoData))
          ELSE /\ videos[id].views < MaxViews
               /\ videos' = [videos EXCEPT ![id] = IncViews(@, r.doc)]
               /\ Finish(s, Resp(r.op, r.user, r.arg, 200,
                                 [video |-> [r.doc EXCEPT !.views = ViewsAnswered(videos'[id], r.doc)],
                                  read |-> r.doc.views]))

\* Two videos: v1 of u1, and v2 whose owner's account no longer exists.
InitViews ==
    /\ videos = [v \in VideoIds |->
                   IF v = "v1" THEN VideoDoc("u1", <<"c", "a", "t">>, <<>>, 1, "pv1", "pt1")
                   ELSE VideoDoc(GhostUser, <<"d", "o", "g">>, <<>>, 2, "pv2", "pt2")]
    /\ comments = <<>>
    /\ likes = {}
    /\ subs = {}
    /\ assets = AssetsOf(videos)
    /\ nextId = 1
    /\ reqs = [s \in Slots |-> Idle]
    /\ last = NoResp
    /\ prev = NoResp
    /\ served = [v \in VideoIds |-> 0]

NextViews ==
    \/ \E s \in Slots, videoId \in IdStrings(VideoIds \cup {GhostVideo}) \cup {Upper(Hex("v1"))} :
          GetVideoByIdBegin(s, videoId)
    \/ \E s \in Slots : GetVideoByIdInc(s)

SpecViews == InitViews /\ [][NextViews]_vars

\* C1: the stored view counter of a video is its initial value, 0, plus the
\* number of getVideoById calls on it answered with success, however the
\* steps of the calls interleave.
C1_ViewsCountEveryCall ==
    \A v \in DOMAIN videos : videos[v].views = served[v]

\* Two calls read the same counter before either raised it, and both were
\* answered.
C1_Witness ==
    /\ last.op = "getVideoById" /\ last.status = 200
    /\ last.data.video.views = last.data.read + 2
    /\ served["v1"] = 2

\* Whether the step answers the request in slot s.
Answers(s, op) == reqs[s].op = op /\ reqs'[s] = Idle

\* C19: a getVideoById answered with success returns the views the stored
\* counter holds right after the call's own increment, its value before
\* plus 1 (so concurrent calls return different values); a call answered
\* 400 or 404 leaves the counters as they were.
C19_ResponseIsOwnIncrement ==
    [][/\ \A s \in Slots :
             (Answers(s, "getVideoById") /\ last'.status = 200) =>
                 LET v == CastObjectId(reqs[s].arg)
                 IN /\ last'.data.video.views = videos[v].views + 1
                    /\ last'.data.video.views = videos'[v].views
       /\ (last' # last /\ last'.op = "getVideoById" /\ last'.status \in {400, 404}) =>
             UNCHANGED videos]_vars

\* A call that ran with another was answered with the third view of v1,
\* and a later call was answered 404.
C19_Witness ==
    /\ last.op = "getVideoById" /\ last.status = 404
    /\ videos["v1"].views = 3
    /\ served["v1"] = 3

\* Like.deleteMany({video}): the Likes that stay.
LikesNotOfVideo(L, video) == {d \in L : d.video # video}

\* Comment.deleteMany({video}): the Comments that stay.
CommentsNotOfVideo(cs, video) ==
    [c \in {x \in DOMAIN cs : cs[x].video # video} |-> cs[c]]

\* Video.deleteOne({_id}): the Videos that stay.
VideosWithout(vs, video) == [v \in DOMAIN vs \ {video} |-> vs[v]]

\* The next awaited call of deleteVideo once Video.findById ("found"), the
\* delete of the video file ("video") or that of the thumbnail ("image")
\* is done: a media-store delete is awaited only for a public id that the
\* document read holds (if (videoToDelete.videoPublicId), if
\* (videoToDelete.thumbnailPublicId)).
DeleteNextPc(doc, done) ==
    IF done = "found" /\ doc.videoPublicId # NoId THEN "destroyVideo"
    ELSE IF done \in {"found", "video"} /\ doc.thumbnailPublicId # NoId THEN "destroyThumb"
    ELSE "deleteLikes"

\* deleteVideo up to its next awaited call: validation, Video.findById
\* (videoToDelete stays in the request), the ownership test.  Without
\* req.user the optional chain gives undefined, which no owner equals.
DeleteVideoBegin(s, user, videoId) ==
    /\ FreeSlot(s)
    /\ UNCHANGED <<videos, comments, likes, subs, nextId, assets>>
    /\ IF Len(videoId) = 0 \/ ~ObjectIdIsValid(videoId)
       THEN Answer(Resp("deleteVideo", user, videoId, 400, NoData))
       ELSE IF FindById(videos, CastObjectId(videoId)) = NoDoc
       THEN Answer(Resp("deleteVideo", user, videoId, 404, NoData))
       ELSE IF user = NoId \/ Hex(videos[CastObjectId(videoId)].owner) # Hex(user)
       THEN Answer(Resp("deleteVideo", user, videoId, 403, NoData))
       ELSE LET videoToDelete == FindById(videos, CastObjectId(videoId))
            IN Begin(s, [Req("deleteVideo", user, videoId, DeleteNextPc(videoToDelete, "found"))
                           EXCEPT !.doc = videoToDelete])

\* await deleteFromCloudinary(videoPublicId, "video"), then
\* await deleteFromCloudinary(thumbnailPublicId, "image"): the media store
\* removes the asset (ok), or the call fails, is logged and returns null.
DeleteVideoDestroy(s, ok) ==
    /\ reqs[s].op = "deleteVideo" /\ reqs[s].pc \in {"destroyVideo", "destroyThumb"}
    /\ UNCHANGED <<videos, comments, likes, subs, nextId>>
    /\ LET r == reqs[s]
           publicId == IF r.pc = "destroyVideo" THEN r.doc.videoPublicId
                       ELSE r.doc.thumbnailPublicId
           out == DeleteFromCloudinary(publicId, ok)
           c == Call("destroy", [kind |-> IF r.pc = "destroyVideo" THEN "video" ELSE "image",
                                 id |-> publicId], ok)
       IN /\ assets' = out.assets
          /\ IF out.threw
             THEN Finish(s, [Resp(r.op, r.user, r.arg, 500, NoData) EXCEPT !.calls = <<c>>])
             ELSE Continue(s, Issued([r EXCEPT !.pc =
                                         DeleteNextPc(r.doc, IF r.pc = "destroyVideo" THEN "video"
                                                             ELSE "image")], c))

\* await Like.deleteMany({video: videoId})
DeleteVideoLikes(s) ==
    /\ reqs[s].op = "deleteVideo" /\ reqs[s].pc = "deleteLikes"
    /\ UNCHANGED <<videos, comments, subs, nextId, assets>>
    /\ likes' = LikesNotOfVideo(likes, CastObjectId(reqs[s].arg))
    /\ Continue(s, Issued([reqs[s] EXCEPT !.pc = "deleteComments"],
                          Call("Like.deleteMany", CastObjectId(reqs[s].arg), TRUE)))

\* await Comment.deleteMany({video: videoId})
DeleteVideoComments(s) ==
    /\ reqs[s].op = "deleteVideo" /\ reqs[s].pc = "deleteComments"
    /\ UNCHANGED <<videos, likes, subs, nextId, assets>>
    /\ comments' = CommentsNotOfVideo(comments, CastObjectId(reqs[s].arg))
    /\ Continue(s, Issued([reqs[s] EXCEPT !.pc = "deleteOne"],
                          Call("Comment.deleteMany", CastObjectId(reqs[s].arg), TRUE)))

\* A handler that takes every delete for done.
DeleteFailedNever(result) == FALSE

\* deletedVideo.deletedCount === 0 (and the same test in deleteComment)
DeleteFailed(result) == result.deletedCount = 0

\* await Video.deleteOne({_id: videoId}), then the response: 500 when no
\* document was deleted.
DeleteVideoRecord(s) ==
    /\ reqs[s].op = "deleteVideo" /\ reqs[s].pc = "deleteOne"
    /\ UNCHANGED <<comments, likes, subs, nextId, assets>>
    /\ LET r == reqs[s]
           id == CastObjectId(r.arg)
           deletedVideo == [deletedCount |-> IF id \in DOMAIN videos THEN 1 ELSE 0]
           c == Call("Video.deleteOne", id, id \in DOMAIN videos)
       IN /\ videos' = VideosWithout(videos, id)
          /\ IF DeleteFailed(deletedVideo)
             THEN Finish(s, [Resp(r.op, r.user, r.arg, 500, NoData) EXCEPT !.calls = <<c>>])
             ELSE Finish(s, [Resp(r.op, r.user, r.arg, 200, deletedVideo)
                               EXCEPT !.calls = <<c>>])

\* The Likes the two toggles can have created, in a fixed order: of each
\* video and of each comment, by each user.
LikePool ==
    LET targets == <<"v1", "v2", "c1", "c2">>
        users == <<"u1", "u2">>
    IN [k \in 1..8 |->
          LET t == targets[((k - 1) \div 2) + 1]
              u == users[((k - 1) % 2) + 1]
          IN IF t \in VideoIds THEN [kind |-> "video", of |-> t, by |-> u]
             ELSE [kind |-> "comment", of |-> t, by |-> u]]

LikeOfChoice(i, ch, cs) ==
    IF ch.kind = "video" THEN NewVideoLike(i, ch.of, ch.by)
    ELSE NewCommentLike(i, ch.of, cs[ch.of], ch.by)

\* The two videos of u1 and u2 with their assets, comments on them, and up
\* to MaxIds of the Likes of the pool, with _id in the order of the pool.
InitDelete ==
    /\ videos = [v \in VideoIds |->
                   IF v = "v1" THEN VideoDoc("u1", <<"c", "a", "t">>, <<>>, 1, "pv1", "pt1")
                   ELSE VideoDoc("u2", <<"d", "o", "g">>, <<>>, 2, "pv2", "pt2")]
    /\ \E v \in VideoIds :
          comments = [c \in CommentIds |->
                        IF c = "c1" THEN CommentDoc("v1", "u2") ELSE CommentDoc(v, "u1")]
    /\ \E K \in SUBSET DOMAIN LikePool :
          /\ Cardinality(K) <= MaxIds
          /\ likes = {LikeOfChoice(Cardinality({j \in K : j <= k}), LikePool[k], comments)
                        : k \in K}
    /\ subs = {}
    /\ assets = AssetsOf(videos)
    /\ nextId = MaxIds + 1
    /\ reqs = [s \in Slots |-> Idle]
    /\ last = NoResp
    /\ prev = NoResp
    /\ served = [v \in VideoIds |-> 0]

\* deleteVideo requests, one at a time.
NextDelete ==
    \/ \E user \in Callers, videoId \in IdStrings(VideoIds \cup {GhostVideo}) :
          DeleteVideoBegin(1, user, videoId)
    \/ \E s \in Slots, ok \in BOOLEAN : DeleteVideoDestroy(s, ok)
    \/ \E s \in Slots : DeleteVideoLikes(s)
    \/ \E s \in Slots : DeleteVideoComments(s)
    \/ \E s \in Slots : DeleteVideoRecord(s)

SpecDelete == InitDelete /\ [][NextDelete]_vars

\* The comments of a video in collection cs.
CommentsOfVideo(cs, video) == {c \in DOMAIN cs : cs[c].video = video}

\* C9: a deleteVideo that ran alone and succeeded removed the Video, the
\* Comments on it, and the Likes of it and of those Comments, and nothing
\* else; no Like or Comment left refers to what was removed.
C9_DeleteVideoCascades ==
    (Quiescent /\ AloneOk(last) /\ last.op = "deleteVideo") =>
        LET v == CastObjectId(last.arg)
            gone == CommentsOfVideo(last.pre.comments, v)
        IN /\ v \in DOMAIN last.pre.videos
           /\ videos = VideosWithout(last.pre.videos, v)
           /\ comments = [c \in DOMAIN last.pre.comments \ gone |-> last.pre.comments[c]]
           /\ likes = {d \in last.pre.likes : LikeTarget(d) \notin {v} \cup gone}
           /\ \A d \in likes : d.video # v /\ d.comment \notin gone
           /\ \A c \in DOMAIN comments : comments[c].video # v

\* v1 was deleted with two Comments, a Like of it and a Like of one of
\* its Comments.
C9_Witness ==
    /\ Quiescent /\ AloneOk(last) /\ last.op = "deleteVideo"
    /\ CastObjectId(last.arg) = "v1"
    /\ CommentsOfVideo(last.pre.comments, "v1") = {"c1", "c2"}
    /\ \E d \in last.pre.likes : d.comment = "c2"
    /\ \E d \in last.pre.likes : IsVideoLike(d) /\ d.video = "v1"
    /\ likes = {}

----------------------------------------------------------------------------
(* Video controller: updateVideo and togglePublishStatus.                  *)

\* req.body and req.files of an updateVideo request: title and description
\* (empty for absent: the handler only tests them for truth), and whether a
\* video file and a thumbnail were sent.
UpdateBody(title, description, videoFile, thumbnail) ==
    [title |-> title, description |-> description,
     videoFile |-> videoFile, thumbnail |-> thumbnail]

\* An ownership test that every caller passes.
IsOwnerAlways(doc, user) == TRUE

\* video.owner.toString() !== req.user?._id.toString(), negated: without
\* req.user the optional chain gives undefined, which no owner equals.
IsOwner(doc, user) == user # NoId /\ Hex(doc.owner) = Hex(user)

\* {$set: fields} on a document: the fields named are replaced, the others
\* stay as stored.
SetFields(doc, fields) ==
    [k \in DOMAIN doc |-> IF k \in DOMAIN fields THEN fields[k] ELSE doc[k]]

\* A replace of the stored document by the one the request read, with the
\* fields set on it (document.save() in place of $set).
SetFieldsOnRead(doc, read, fields) == SetFields(read, fields)

\* findByIdAndUpdate(videoId, {$set: fields}): applied by the database to
\* the stored document, whatever the request read before.
UpdateStored(doc, read, fields) == SetFields(doc, fields)

\* A handler that takes every upload for done.
UploadRejectedNever(response) == FALSE

\* !newVideoFile || !newVideoFile.url || !newVideoFile.public_id
UploadRejected(response) == response.public_id = NoId

\* An update that sets the owner along with the title.
TextFieldsWithOwner(body) == [title |-> body.title, owner |-> GhostUser]

\* updateFields after `if (title)` and `if (description)`.
TextFields(body) ==
    [k \in {x \in {"title", "description"} : Len(body[x]) > 0} |-> body[k]]

\* The step of updateVideo that follows the text fields (done = "text"),
\* the video file (done = "video") or the thumbnail (done = "image").
UpdateNextPc(body, done) ==
    IF done = "text" /\ body.videoFile THEN "uploadVideo"
    ELSE IF done \in {"text", "video"} /\ body.thumbnail THEN "uploadThumb"
    ELSE "update"

\* updateVideo up to its first media or database write: validation,
\* Video.findById (video stays in the request), the ownership test, the
\* text fields.
UpdateVideoBegin(s, user, videoId, body) ==
    /\ FreeSlot(s)
    /\ UNCHANGED <<videos, comments, likes, subs, nextId, assets>>
    /\ IF Len(videoId) = 0 \/ ~ObjectIdIsValid(videoId)
       THEN Answer([Resp("updateVideo", user, videoId, 400, NoData) EXCEPT !.body = body])
       ELSE IF /\ Len(body.title) = 0 /\ Len(body.description) = 0
               /\ ~body.videoFile /\ ~body.thumbnail
       THEN Answer([Resp("updateVideo", user, videoId, 400, NoData) EXCEPT !.body = body])
       ELSE IF FindById(videos, CastObjectId(videoId)) = NoDoc
       THEN Answer([Resp("updateVideo", user, videoId, 404, NoData) EXCEPT !.body = body])
       ELSE IF ~IsOwner(videos[CastObjectId(videoId)], user)
       THEN Answer([Resp("updateVideo", user, videoId, 403, NoData) EXCEPT !.body = body])
       ELSE Begin(s, [Req("updateVideo", user, videoId, UpdateNextPc(body, "text"))
                        EXCEPT !.doc = videos[CastObjectId(videoId)],
                               !.body = body,
                               !.fields = TextFields(body)])

\* await uploadOnCloudinary(videoFileLocalPath), and the same for the
\* thumbnail: the response, or a 500 without any delete when the call
\* returns null or rejects.
UpdateVideoUpload(s, ok, exists) ==
    /\ reqs[s].op = "updateVideo" /\ reqs[s].pc \in {"uploadVideo", "uploadThumb"}
    /\ ok => nextId <= MaxUploads
    /\ UNCHANGED <<videos, comments, likes, subs>>
    /\ LET r == reqs[s]
           kind == IF r.pc = "uploadVideo" THEN "video" ELSE "image"
           response == UploadOnCloudinary(ok, exists)
           c == Call("upload", [kind |-> kind, id |-> response.public_id], ok)
           old == IF kind = "video" THEN r.doc.videoPublicId ELSE r.doc.thumbnailPublicId
           set == IF kind = "video"
                  THEN [videoFile |-> response.url, videoPublicId |-> response.public_id]
                  ELSE [thumbnail |-> response.url, thumbnailPublicId |-> response.public_id]
       IN /\ assets' = IF ok THEN assets \cup {response.public_id} ELSE assets
          /\ nextId' = IF ok THEN nextId + 1 ELSE nextId
          /\ IF response.threw \/ UploadRejected(response)
             THEN Finish(s, [Resp(r.op, r.user, r.arg, 500, NoData) EXCEPT !.calls = <<c>>])
             ELSE Continue(s, Issued([r EXCEPT !.fields = [k \in DOMAIN set \cup DOMAIN @ |->
                                                              IF k \in DOMAIN set THEN set[k] ELSE @[k]],
                                               !.pc = IF old # NoId
                                                      THEN (IF kind = "video" THEN "destroyOldVideo"
                                                            ELSE "destroyOldThumb")
                                                      ELSE UpdateNextPc(r.body, kind)], c))

\* await deleteFromCloudinary(video.videoPublicId, "video"), and the same
\* for the thumbnail: the asset the request read at its first step.
UpdateVideoDestroy(s, ok) ==
    /\ reqs[s].op = "updateVideo" /\ reqs[s].pc \in {"destroyOldVideo", "destroyOldThumb"}
    /\ UNCHANGED <<videos, comments, likes, subs, nextId>>
    /\ LET r == reqs[s]
           kind == IF r.pc = "destroyOldVideo" THEN "video" ELSE "image"
           publicId == IF kind = "video" THEN r.doc.videoPublicId ELSE r.doc.thumbnailPublicId
           out == DeleteFromCloudinary(publicId, ok)
           c == Call("destroy", [kind |-> kind, id |-> publicId], ok)
       IN /\ assets' = out.assets
          /\ IF out.threw
             THEN Finish(s, [Resp(r.op, r.user, r.arg, 500, NoData) EXCEPT !.calls = <<c>>])
             ELSE Continue(s, Issued([r EXCEPT !.pc = UpdateNextPc(r.body, kind)], c))

\* await Video.findByIdAndUpdate(videoId, {$set: updateFields}, {new: true}),
\* then the response: the updated document, or 500 when the video is gone.
\* (read, the document found at the first step, is kept with the response.)
UpdateVideoSet(s) ==
    /\ reqs[s].op = "updateVideo" /\ reqs[s].pc = "update"
    /\ UNCHANGED <<comments, likes, subs, nextId, assets>>
    /\ LET r == reqs[s]
           id == CastObjectId(r.arg)
           c == Call("Video.findByIdAndUpdate", id, id \in DOMAIN videos)
       IN IF id \in DOMAIN videos
          THEN /\ videos' = [videos EXCEPT ![id] = UpdateStored(@, r.doc, r.fields)]
               /\ Finish(s, [Resp(r.op, r.user, r.arg, 200,
                                  [video |-> videos'[id], read |-> r.doc])
                               EXCEPT !.calls = <<c>>])
          ELSE /\ UNCHANGED videos
               /\ Finish(s, [Resp(r.op, r.user, r.arg, 500, NoData) EXCEPT !.calls = <<c>>])

\* togglePublishStatus up to findByIdAndUpdate: validation, Video.findById
\* (video stays in the request), the ownership test.
TogglePublishStatusBegin(s, user, videoId) ==
    /\ FreeSlot(s)
    /\ UNCHANGED <<videos, comments, likes, subs, nextId, assets>>
    /\ IF Len(videoId) = 0 \/ ~ObjectIdIsValid(videoId)
       THEN Answer(Resp("togglePublishStatus", user, videoId, 400, NoData))
       ELSE IF FindById(videos, CastObjectId(videoId)) = NoDoc
       THEN Answer(Resp("togglePublishStatus", user, videoId, 404, NoData))
       ELSE IF ~IsOwner(videos[CastObjectId(videoId)], user)
       THEN Answer(Resp("togglePublishStatus", user, videoId, 403, NoData))
       ELSE Begin(s, [Req("togglePublishStatus", user, videoId, "update")
                        EXCEPT !.doc = videos[CastObjectId(videoId)]])

\* await Video.findByIdAndUpdate(videoId, {$set: {isPublished:
\* !video.isPublished}}, {new: true}), then the response: the flag of the
\* updated document, or 500 when the video is gone.
TogglePublishStatusSet(s) ==
    /\ reqs[s].op = "togglePublishStatus" /\ reqs[s].pc = "update"
    /\ UNCHANGED <<comments, likes, subs, nextId, assets>>
    /\ LET r == reqs[s]
           id == CastObjectId(r.arg)
           c == Call("Video.findByIdAndUpdate", id, id \in DOMAIN videos)
       IN IF id \in DOMAIN videos
          THEN /\ videos' = [videos EXCEPT ![id] =
                               UpdateStored(@, r.doc, [isPublished |-> ~r.doc.isPublished])]
               /\ Finish(s, [Resp(r.op, r.user, r.arg, 200,
                                  [isPublished |-> videos'[id].isPublished, read |-> r.doc])
                               EXCEPT !.calls = <<c>>])
          ELSE /\ UNCHANGED videos
               /\ Finish(s, [Resp(r.op, r.user, r.arg, 500, NoData) EXCEPT !.calls = <<c>>])

\* The bodies updateVideo requests carry: nothing, a title, a video file,
\* a thumbnail, and a description with both files.
UpdateBodies ==
    {UpdateBody(<<>>, <<>>, FALSE, FALSE),
     UpdateBody(<<"n", "e", "w">>, <<>>, FALSE, FALSE),
     UpdateBody(<<>>, <<>>, TRUE, FALSE),
     UpdateBody(<<>>, <<>>, FALSE, TRUE),
     UpdateBody(<<>>, <<"t", "x", "t">>, TRUE, TRUE)}

\* One video of u1, with its two assets.
InitVideo ==
    /\ videos = [v \in {"v1"} |-> VideoDoc("u1", <<"c", "a", "t">>, <<>>, 1, "pv1", "pt1")]
    /\ comments = <<>>
    /\ likes = {}
    /\ subs = {}
    /\ assets = AssetsOf(videos)
    /\ nextId = 1
    /\ reqs = [s \in Slots |-> Idle]
    /\ last = NoResp
    /\ prev = NoResp
    /\ served = [v \in VideoIds |-> 0]

\* getVideoById, togglePublishStatus and updateVideo requests on v1,
\* interleaved; the updates set a title.
NextVideo ==
    \/ \E s \in Slots, videoId \in {Hex("v1"), <<"x", "y", "z">>} : GetVideoByIdBegin(s, videoId)
    \/ \E s \in Slots : GetVideoByIdInc(s)
    \/ \E s \in Slots, user \in UserIds :
          UpdateVideoBegin(s, user, Hex("v1"), UpdateBody(<<"n", "e", "w">>, <<>>, FALSE, FALSE))
    \/ \E s \in Slots : UpdateVideoSet(s)
    \/ \E s \in Slots, user \in UserIds : TogglePublishStatusBegin(s, user, Hex("v1"))
    \/ \E s \in Slots : TogglePublishStatusSet(s)

SpecVideo == InitVideo /\ [][NextVideo]_vars

\* C12: no step lowers the view counter of a video.
C12_ViewsNeverDecrease ==
    [][\A v \in DOMAIN videos \cap DOMAIN videos' :
          videos'[v].views >= videos[v].views]_vars

\* An updateVideo wrote the video after a getVideoById had raised the views
\* it read.
C12_Witness ==
    /\ last.op = "updateVideo" /\ last.status = 200
    /\ last.data.read.views < last.data.video.views
    /\ videos["v1"].views = last.data.video.views

\* C13: the owner of a stored video never changes.
C13_OwnerImmutable ==
    [][\A v \in DOMAIN videos \cap DOMAIN videos' :
          videos'[v].owner = videos[v].owner]_vars

\* v1 was viewed, unpublished and given a new title, and is still of u1.
C13_Witness ==
    /\ Quiescent
    /\ videos["v1"].views > 0
    /\ ~videos["v1"].isPublished
    /\ videos["v1"].title = <<"n", "e", "w">>
    /\ videos["v1"].owner = "u1"

\* C18: every togglePublishStatus answered with success flips the stored
\* flag and returns the new stored value, so after k of them the flag is the
\* initial one exactly when k is even.
C18_EveryToggleFlips ==
    [][\A s \in Slots :
          (Answers(s, "togglePublishStatus") /\ last'.status = 200) =>
              LET v == CastObjectId(reqs[s].arg)
              IN /\ videos'[v].isPublished = ~videos[v].isPublished
                 /\ last'.data.isPublished = videos'[v].isPublished]_vars

----------------------------------------------------------------------------
(* Video controller: publishAVideo.                                        *)

\* req.body and req.files of a publishAVideo request.
PublishBody(title, description, videoFile, thumbnail) ==
    [title |-> title, description |-> description,
     videoFile |-> videoFile, thumbnail |-> thumbnail]

\* [title, description].some((field) => !field || field.trim() === "")
TextMissing(body) ==
    \/ Len(body.title) = 0 \/ Len(Trim(body.title)) = 0
    \/ Len(body.description) = 0 \/ Len(Trim(body.description)) = 0

\* A handler that tests the upload of the video file only.
PublishRejectedOnVideo(videoFile, thumbnail) == videoFile.public_id = NoId

\* !videoFile, !thumbnail: an upload returned null.
PublishRejected(videoFile, thumbnail) ==
    videoFile.public_id = NoId \/ thumbnail.public_id = NoId

\* The _id of the next Video created.
NewVideoId == IF "v1" \notin DOMAIN videos THEN "v1" ELSE "v2"

\* publishAVideo up to the first upload: the validation of the text and of
\* the two files.
PublishAVideoBegin(s, user, body) ==
    /\ FreeSlot(s)
    /\ UNCHANGED <<videos, comments, likes, subs, nextId, assets>>
    /\ IF TextMissing(body) \/ ~body.videoFile \/ ~body.thumbnail
       THEN Answer([Resp("publishAVideo", user, <<>>, 400, NoData) EXCEPT !.body = body])
       ELSE Begin(s, [Req("publishAVideo", user, <<>>, "uploadVideo") EXCEPT !.body = body])

\* await uploadOnCloudinary(videoFileLocalPath): the handler goes on to the
\* upload of the thumbnail, also when the call returned null; a call that
\* rejects ends the request with 500.
PublishAVideoUploadVideo(s, ok, exists) ==
    /\ reqs[s].op = "publishAVideo" /\ reqs[s].pc = "uploadVideo"
    /\ ok => nextId <= MaxUploads
    /\ UNCHANGED <<videos, comments, likes, subs>>
    /\ LET r == reqs[s]
           videoFile == UploadOnCloudinary(ok, exists)
           c == Call("upload", [kind |-> "video", id |-> videoFile.public_id], ok)
       IN /\ assets' = IF ok THEN assets \cup {videoFile.public_id} ELSE assets
          /\ nextId' = IF ok THEN nextId + 1 ELSE nextId
          /\ IF videoFile.threw
             THEN Finish(s, [Resp(r.op, r.user, r.arg, 500, NoData) EXCEPT !.calls = <<c>>])
             ELSE Continue(s, Issued([r EXCEPT !.pc = "uploadThumb",
                                               !.fields = [videoFile |-> videoFile]], c))

\* await uploadOnCloudinary(thumbnailLocalPath), then the two tests: 500
\* when an upload returned null, and when this call rejects.
PublishAVideoUploadThumb(s, ok, exists) ==
    /\ reqs[s].op = "publishAVideo" /\ reqs[s].pc = "uploadThumb"
    /\ ok => nextId <= MaxUploads
    /\ UNCHANGED <<videos, comments, likes, subs>>
    /\ LET r == reqs[s]
           thumbnail == UploadOnCloudinary(ok, exists)
           c == Call("upload", [kind |-> "image", id |-> thumbnail.public_id], ok)
       IN /\ assets' = IF ok THEN assets \cup {thumbnail.public_id} ELSE assets
          /\ nextId' = IF ok THEN nextId + 1 ELSE nextId
          /\ IF thumbnail.threw \/ PublishRejected(r.fields.videoFile, thumbnail)
             THEN Finish(s, [Resp(r.op, r.user, r.arg, 500, NoData) EXCEPT !.calls = <<c>>])
             ELSE Continue(s, Issued([r EXCEPT !.pc = "create",
                                               !.fields = [videoFile |-> r.fields.videoFile,
                                                           thumbnail |-> thumbnail]], c))

\* await Video.create({...}), then the response, 201 with the document.
PublishAVideoCreate(s) ==
    /\ reqs[s].op = "publishAVideo" /\ reqs[s].pc = "create"
    /\ VideoIds \ DOMAIN videos # {}
    /\ UNCHANGED <<comments, likes, subs, nextId, assets>>
    /\ LET r == reqs[s]
           id == NewVideoId
           video == [VideoDoc(r.user, r.body.title, r.body.description,
                              Cardinality(DOMAIN videos) + 1,
                              r.fields.videoFile.public_id, r.fields.thumbnail.public_id)
                       EXCEPT !.videoFile = r.fields.videoFile.url,
                              !.thumbnail = r.fields.thumbnail.url,
                              !.isPublished = TRUE]
       IN /\ videos' = [v \in DOMAIN videos \cup {id} |-> IF v = id THEN video ELSE videos[v]]
          /\ Finish(s, [Resp(r.op, r.user, r.arg, 201, [video |-> video, _id |-> id])
                          EXCEPT !.calls = <<Call("Video.create", id, TRUE)>>])

\* The bodies publishAVideo requests carry.
PublishBodies ==
    {PublishBody(t, <<"t", "x", "t">>, vf, th) :
        t \in {<<>>, <<" ">>, <<"c", "a", "t">>}, vf \in BOOLEAN, th \in BOOLEAN}

\* No video yet.
InitPublish ==
    /\ videos = <<>>
    /\ comments = <<>>
    /\ likes = {}
    /\ subs = {}
    /\ assets = {}
    /\ nextId = 1
    /\ reqs = [s \in Slots |-> Idle]
    /\ last = NoResp
    /\ prev = NoResp
    /\ served = [v \in VideoIds |-> 0]

NextPublish ==
    \/ \E s \in Slots, user \in UserIds, body \in PublishBodies : PublishAVideoBegin(s, user, body)
    \/ \E s \in Slots, ok \in BOOLEAN, exists \in BOOLEAN : PublishAVideoUploadVideo(s, ok, exists)
    \/ \E s \in Slots, ok \in BOOLEAN, exists \in BOOLEAN : PublishAVideoUploadThumb(s, ok, exists)
    \/ \E s \in Slots : PublishAVideoCreate(s)

SpecPublish == InitPublish /\ [][NextPublish]_vars

\* The successful uploads of a kind among the calls.
Uploaded(calls, kind) ==
    {calls[i].what.id : i \in {j \in DOMAIN calls :
        calls[j].call = "upload" /\ calls[j].ok /\ calls[j].what.kind = kind}}

\* C14: a Video record is created only by a publishAVideo request whose
\* two uploads succeeded, with the URL and public id of each and the
\* published flag true; a request with a failed upload is answered 500 and
\* creates no record.
C14_PublishNeedsBothUploads ==
    [][/\ \A v \in DOMAIN videos' \ DOMAIN videos :
             \E s \in Slots :
                 /\ Answers(s, "publishAVideo")
                 /\ Uploaded(reqs[s].calls, "video") = {videos'[v].videoPublicId}
                 /\ Uploaded(reqs[s].calls, "image") = {videos'[v].thumbnailPublicId}
                 /\ videos'[v].videoFile = UrlOf(videos'[v].videoPublicId)
                 /\ videos'[v].thumbnail = UrlOf(videos'[v].thumbnailPublicId)
                 /\ videos'[v].videoPublicId \in assets
                 /\ videos'[v].thumbnailPublicId \in assets
                 /\ videos'[v].isPublished
       /\ \A s \in Slots :
             (/\ Answers(s, "publishAVideo")
              /\ \E i \in DOMAIN last'.calls :
                    last'.calls[i].call = "upload" /\ ~last'.calls[i].ok) =>
                 (last'.status = 500 /\ UNCHANGED videos)]_vars

\* A request whose video file was uploaded and whose thumbnail was not was
\* answered 500, and a video published by another request is stored.
C14_Witness ==
    /\ last.op = "publishAVideo" /\ last.status = 500
    /\ Len(last.calls) = 2 /\ last.calls[1].ok /\ ~last.calls[2].ok
    /\ DOMAIN videos = {"v1"}
    /\ videos["v1"].isPublished

----------------------------------------------------------------------------
(* Comment controller: updateComment and deleteComment.                    *)

\* !content || content.trim() === ""
ContentMissing(content) == Len(content) = 0 \/ Len(Trim(content)) = 0

\* A deleteMany that leaves every Like in place.
LikesOfCommentKept(L, comment) == L

\* Like.deleteMany({comment}): the Likes that stay.
LikesNotOfComment(L, comment) == {d \in L : d.comment # comment}

\* Comment.deleteOne({_id}): the Comments that stay.
CommentsWithout(cs, comment) == [c \in DOMAIN cs \ {comment} |-> cs[c]]

\* updateComment up to findByIdAndUpdate: validation, the authentication
\* test, Comment.findById, the ownership test.
UpdateCommentBegin(s, user, commentId, content) ==
    /\ FreeSlot(s)
    /\ UNCHANGED <<videos, comments, likes, subs, nextId, assets>>
    /\ IF ContentMissing(content)
       THEN Answer([Resp("updateComment", user, commentId, 400, NoData) EXCEPT !.body = content])
       ELSE IF Len(commentId) = 0 \/ ~ObjectIdIsValid(commentId)
       THEN Answer([Resp("updateComment", user, commentId, 400, NoData) EXCEPT !.body = content])
       ELSE IF user = NoId
       THEN Answer([Resp("updateComment", user, commentId, 401, NoData) EXCEPT !.body = content])
       ELSE IF FindById(comments, CastObjectId(commentId)) = NoDoc
       THEN Answer([Resp("updateComment", user, commentId, 404, NoData) EXCEPT !.body = content])
       ELSE IF ~IsOwner(comments[CastObjectId(commentId)], user)
       THEN Answer([Resp("updateComment", user, commentId, 403, NoData) EXCEPT !.body = content])
       ELSE Begin(s, [Req("updateComment", user, commentId, "update")
                        EXCEPT !.comment = comments[CastObjectId(commentId)],
                               !.body = content])

\* await Comment.findByIdAndUpdate(commentId, {$set: {content}}, {new: true}):
\* 500 when the comment is gone.
UpdateCommentSet(s) ==
    /\ reqs[s].op = "updateComment" /\ reqs[s].pc = "update"
    /\ UNCHANGED <<videos, likes, subs, nextId, assets>>
    /\ LET r == reqs[s]
           id == CastObjectId(r.arg)
           c == Call("Comment.findByIdAndUpdate", id, id \in DOMAIN comments)
       IN IF id \in DOMAIN comments
          THEN /\ comments' = [comments EXCEPT ![id] = SetFields(@, [content |-> r.body])]
               /\ Continue(s, Issued([r EXCEPT !.pc = "populate"], c))
          ELSE /\ UNCHANGED comments
               /\ Finish(s, [Resp(r.op, r.user, r.arg, 500, NoData) EXCEPT !.calls = <<c>>])

\* .populate({path, select}) on a comment found: the query that replaces
\* the owner or the video of the comment by the document stored under the
\* id now, with the fields selected, or by null when none is stored.
PopulatedComment(doc, path) ==
    IF path = "owner"
    THEN [doc EXCEPT !.owner = IF @ \in UserIds THEN [_id |-> @] ELSE NoDoc]
    ELSE [doc EXCEPT !.video = IF @ \in DOMAIN videos
                               THEN [_id |-> @, title |-> videos[@].title,
                                     thumbnail |-> videos[@].thumbnail]
                               ELSE NoDoc]

\* The queries of Comment.findById(id).populate(owner).populate(video), one
\* a step: the comment (null is answered at once, nothing being left to
\* populate), then the owner and the video, which are both asked for once
\* the comment is found and are served in either order (path is the one
\* served by this step); the response follows the second of them.
PopulateStep(s, id, status, path) ==
    LET r == reqs[s]
        other == IF path = "owner" THEN "populateVideo" ELSE "populateOwner"
    IN CASE r.pc = "populate" ->
              IF id \in DOMAIN comments
              THEN Continue(s, [r EXCEPT !.comment = comments[id], !.pc = "populateBoth"])
              ELSE Finish(s, Resp(r.op, r.user, r.arg, status, [comment |-> NoDoc]))
         [] r.pc = "populateBoth" ->
              Continue(s, [r EXCEPT !.comment = PopulatedComment(@, path), !.pc = other])
         [] r.pc \in {"populateOwner", "populateVideo"} ->
              /\ r.pc = (IF path = "owner" THEN "populateOwner" ELSE "populateVideo")
              /\ Finish(s, Resp(r.op, r.user, r.arg, status,
                                [comment |-> PopulatedComment(r.comment, path)]))

\* await Comment.findById(updatedComment._id).populate(...).populate(...),
\* then the response: 200 with the populated comment.
UpdateCommentPopulate(s) ==
    /\ reqs[s].op = "updateComment"
    /\ reqs[s].pc \in {"populate", "populateBoth", "populateOwner", "populateVideo"}
    /\ UNCHANGED <<videos, comments, likes, subs, nextId, assets>>
    /\ \E path \in {"owner", "video"} : PopulateStep(s, CastObjectId(reqs[s].arg), 200, path)

\* deleteComment up to Like.deleteMany: validation, the authentication
\* test, Comment.findById, the ownership test.
DeleteCommentBegin(s, user, commentId) ==
    /\ FreeSlot(s)
    /\ UNCHANGED <<videos, comments, likes, subs, nextId, assets>>
    /\ IF Len(commentId) = 0 \/ ~ObjectIdIsValid(commentId)
       THEN Answer(Resp("deleteComment", user, commentId, 400, NoData))
       ELSE IF user = NoId
       THEN Answer(Resp("deleteComment", user, commentId, 401, NoData))
       ELSE IF FindById(comments, CastObjectId(commentId)) = NoDoc
       THEN Answer(Resp("deleteComment", user, commentId, 404, NoData))
       ELSE IF ~IsOwner(comments[CastObjectId(commentId)], user)
       THEN Answer(Resp("deleteComment", user, commentId, 403, NoData))
       ELSE Begin(s, [Req("deleteComment", user, commentId, "deleteLikes")
                        EXCEPT !.comment = comments[CastObjectId(commentId)]])

\* await Like.deleteMany({comment: commentId})
DeleteCommentLikes(s) ==
    /\ reqs[s].op = "deleteComment" /\ reqs[s].pc = "deleteLikes"
    /\ UNCHANGED <<videos, comments, subs, nextId, assets>>
    /\ likes' = LikesNotOfComment(likes, CastObjectId(reqs[s].arg))
    /\ Continue(s, Issued([reqs[s] EXCEPT !.pc = "deleteOne"],
                          Call("Like.deleteMany", CastObjectId(reqs[s].arg), TRUE)))

\* await Comment.deleteOne({_id: commentId}), then the response: 500 when
\* no document was deleted.
DeleteCommentRecord(s) ==
    /\ reqs[s].op = "deleteComment" /\ reqs[s].pc = "deleteOne"
    /\ UNCHANGED <<videos, likes, subs, nextId, assets>>
    /\ LET r == reqs[s]
           id == CastObjectId(r.arg)
           result == [deletedCount |-> IF id \in DOMAIN comments THEN 1 ELSE 0]
           c == Call("Comment.deleteOne", id, id \in DOMAIN comments)
       IN /\ comments' = CommentsWithout(comments, id)
          /\ IF DeleteFailed(result)
             THEN Finish(s, [Resp(r.op, r.user, r.arg, 500, NoData) EXCEPT !.calls = <<c>>])
             ELSE Finish(s, [Resp(r.op, r.user, r.arg, 200, NoData) EXCEPT !.calls = <<c>>])

\* Video v1 of u1 with two comments, c1 of u2 and c2 of u1, and up to
\* MaxIds Likes of v1, c1 and c2.
InitRace ==
    /\ videos = [v \in {"v1"} |-> VideoDoc("u1", <<"c", "a", "t">>, <<>>, 1, "pv1", "pt1")]
    /\ comments = [c \in CommentIds |->
                     IF c = "c1" THEN CommentDoc("v1", "u2") ELSE CommentDoc("v1", "u1")]
    /\ \E K \in SUBSET {k \in DOMAIN LikePool : LikePool[k].of \in {"v1", "c1", "c2"}} :
          /\ Cardinality(K) <= MaxIds
          /\ likes = {LikeOfChoice(Cardinality({j \in K : j <= k}), LikePool[k], comments)
                        : k \in K}
    /\ subs = {}
    /\ assets = AssetsOf(videos)
    /\ nextId = MaxIds + 1
    /\ reqs = [s \in Slots |-> Idle]
    /\ last = NoResp
    /\ prev = NoResp
    /\ served = [v \in VideoIds |-> 0]

\* deleteVideo and deleteComment requests of the owners, interleaved.
NextRace ==
    \/ \E s \in Slots : DeleteVideoBegin(s, "u1", Hex("v1"))
    \/ \E s \in Slots, ok \in BOOLEAN : DeleteVideoDestroy(s, ok)
    \/ \E s \in Slots : DeleteVideoLikes(s)
    \/ \E s \in Slots : DeleteVideoComments(s)
    \/ \E s \in Slots : DeleteVideoRecord(s)
    \/ \E s \in Slots : DeleteCommentBegin(s, "u2", Hex("c1"))
    \/ \E s \in Slots : DeleteCommentLikes(s)
    \/ \E s \in Slots : DeleteCommentRecord(s)

SpecRace == InitRace /\ [][NextRace]_vars

\* Whether the calls hold a successful call of that name on that target.
Called(calls, name, what) ==
    \E i \in DOMAIN calls : calls[i].call = name /\ calls[i].what = what

\* C16: a deleteVideo is answered with success only by the step that
\* removes the Video record, so of two concurrent ones at most one is; the
\* one whose deleteOne finds no record is answered 500, and one that finds
\* no record at its first lookup 404; the record is removed only by a
\* request that has run its two cascade deletes.
C16_OneDeleteSucceeds ==
    [][/\ \A s \in Slots :
             Answers(s, "deleteVideo") =>
                 LET v == CastObjectId(reqs[s].arg)
                 IN /\ last'.status = 200 => (v \in DOMAIN videos /\ v \notin DOMAIN videos')
                    /\ (reqs[s].pc = "deleteOne" /\ v \notin DOMAIN videos) => last'.status = 500
       /\ (/\ last' # last /\ last'.op = "deleteVideo"
           /\ \A s \in Slots : ~Answers(s, "deleteVideo")
           /\ ObjectIdIsValid(last'.arg)
           /\ CastObjectId(last'.arg) \notin DOMAIN videos) => last'.status = 404
       /\ \A v \in DOMAIN videos \ DOMAIN videos' :
             \E s \in Slots :
                 /\ Answers(s, "deleteVideo") /\ CastObjectId(reqs[s].arg) = v
                 /\ Called(reqs[s].calls, "Like.deleteMany", v)
                 /\ Called(reqs[s].calls, "Comment.deleteMany", v)]_vars

\* Of two deleteVideo requests that ran together, the second to reach
\* deleteOne was answered 500 after its cascade deletes.
C16_Witness ==
    /\ Quiescent
    /\ last.op = "deleteVideo" /\ last.status = 500 /\ ~last.alone
    /\ Called(last.calls, "Like.deleteMany", "v1")
    /\ Called(last.calls, "Comment.deleteMany", "v1")
    /\ "v1" \notin DOMAIN videos

\* C20: a deleteComment that ran alone and succeeded removed the Comment
\* and the Likes whose comment it is, and no other Comment or Like; a
\* deleteComment whose deleteOne finds no record is answered 500.
C20_DeleteCommentCascades ==
    [][\A s \in Slots :
          Answers(s, "deleteComment") =>
              LET c == CastObjectId(reqs[s].arg)
              IN /\ (last'.status = 200 /\ reqs[s].alone) =>
                       /\ c \in DOMAIN reqs[s].pre.comments
                       /\ comments' = CommentsWithout(reqs[s].pre.comments, c)
                       /\ likes' = {d \in reqs[s].pre.likes : d.comment # c}
                       /\ videos' = reqs[s].pre.videos
                 /\ (reqs[s].pc = "deleteOne" /\ c \notin DOMAIN comments) =>
                       last'.status = 500]_vars

\* c1 was deleted with a Like of it, and the Like of v1 is still there.
C20_Witness ==
    /\ Quiescent /\ AloneOk(last) /\ last.op = "deleteComment"
    /\ \E d \in last.pre.likes : d.comment = "c1"
    /\ \E d \in likes : IsVideoLike(d)
    /\ \A d \in likes : d.comment # "c1"
    /\ DOMAIN comments = {"c2"}

\* Video v1 of u1 with its two assets, comment c1 of u2 on it and a Like
\* of each.
InitOwner ==
    /\ videos = [v \in {"v1"} |-> VideoDoc("u1", <<"c", "a", "t">>, <<>>, 1, "pv1", "pt1")]
    /\ comments = [c \in {"c1"} |-> CommentDoc("v1", "u2")]
    /\ likes = {NewVideoLike(1, "v1", "u2"), NewCommentLike(2, "c1", comments["c1"], "u1")}
    /\ subs = {}
    /\ assets = AssetsOf(videos)
    /\ nextId = 1
    /\ reqs = [s \in Slots |-> Idle]
    /\ last = NoResp
    /\ prev = NoResp
    /\ served = [v \in VideoIds |-> 0]

\* The five requests that test the owner, by u1 and by u2, one at a time;
\* the updates of the video carry nothing, a title or a video file.
NextOwner ==
    \/ \E user \in UserIds, body \in {b \in UpdateBodies : ~b.thumbnail} :
          UpdateVideoBegin(1, user, Hex("v1"), body)
    \/ \E s \in Slots, ok \in BOOLEAN, exists \in BOOLEAN : UpdateVideoUpload(s, ok, exists)
    \/ \E s \in Slots, ok \in BOOLEAN : UpdateVideoDestroy(s, ok)
    \/ \E s \in Slots : UpdateVideoSet(s)
    \/ \E user \in UserIds : TogglePublishStatusBegin(1, user, Hex("v1"))
    \/ \E s \in Slots : TogglePublishStatusSet(s)
    \/ \E user \in UserIds : DeleteVideoBegin(1, user, Hex("v1"))
    \/ \E s \in Slots, ok \in BOOLEAN : DeleteVideoDestroy(s, ok)
    \/ \E s \in Slots : DeleteVideoLikes(s)
    \/ \E s \in Slots : DeleteVideoComments(s)
    \/ \E s \in Slots : DeleteVideoRecord(s)
    \/ \E user \in UserIds, content \in {<<" ">>, <<"o", "k">>} :
          UpdateCommentBegin(1, user, Hex("c1"), content)
    \/ \E s \in Slots : UpdateCommentSet(s)
    \/ \E s \in Slots : UpdateCommentPopulate(s)
    \/ \E user \in UserIds : DeleteCommentBegin(1, user, Hex("c1"))
    \/ \E s \in Slots : DeleteCommentLikes(s)
    \/ \E s \in Slots : DeleteCommentRecord(s)

SpecOwner == InitOwner /\ [][NextOwner]_vars

\* updateVideo requests of the owner that carry files, and deleteVideo
\* requests, one at a time.
NextMedia ==
    \/ \E body \in {b \in UpdateBodies : b.videoFile \/ b.thumbnail} :
          UpdateVideoBegin(1, "u1", Hex("v1"), body)
    \/ \E s \in Slots, ok \in BOOLEAN, exists \in BOOLEAN : UpdateVideoUpload(s, ok, exists)
    \/ \E s \in Slots, ok \in BOOLEAN : UpdateVideoDestroy(s, ok)
    \/ \E s \in Slots : UpdateVideoSet(s)
    \/ DeleteVideoBegin(1, "u1", Hex("v1"))
    \/ \E s \in Slots, ok \in BOOLEAN : DeleteVideoDestroy(s, ok)
    \/ \E s \in Slots : DeleteVideoLikes(s)
    \/ \E s \in Slots : DeleteVideoComments(s)
    \/ \E s \in Slots : DeleteVideoRecord(s)

SpecMedia == InitOwner /\ [][NextMedia]_vars

\* The record a request of one of the five owner-tested handlers is about.
TargetDoc(r) ==
    IF r.op \in {"updateVideo", "deleteVideo", "togglePublishStatus"}
    THEN FindById(videos, CastObjectId(r.arg))
    ELSE FindById(comments, CastObjectId(r.arg))

\* A response to a call of an authenticated user on a stored record of
\* another owner.
NotOwnerCall(r) ==
    /\ r.op \in {"updateVideo", "deleteVideo", "togglePublishStatus",
                 "updateComment", "deleteComment"}
    /\ r.user \in UserIds
    /\ TargetDoc(r) # NoDoc
    /\ TargetDoc(r).owner # r.user

\* The call carried what the handler requires before it looks the record
\* up: a field to update, or a content that is not blank.
PassesValidation(r) ==
    /\ r.op = "updateVideo" =>
          (Len(r.body.title) > 0 \/ Len(r.body.description) > 0
             \/ r.body.videoFile \/ r.body.thumbnail)
    /\ r.op = "updateComment" => ~ContentMissing(r.body)

\* The step answers 403, issues no call and leaves the records and the
\* media store as they were.
ForbiddenStep ==
    /\ last'.status = 403
    /\ last'.calls = <<>>
    /\ UNCHANGED <<videos, comments, likes, assets>>

\* C11 as stated: every call of a user who is not the owner of the target
\* record is answered 403 and changes nothing.
C11_NotOwnerForbidden ==
    [][(last' # last /\ NotOwnerCall(last')) => ForbiddenStep]_vars

\* The step answers 400, issues no call and leaves the records and the
\* media store as they were.
BadRequestStep ==
    /\ last'.status = 400
    /\ last'.calls = <<>>
    /\ UNCHANGED <<videos, comments, likes, assets>>

\* C11: every call of a user who is not the owner of the target record,
\* and that carries what the handler validates first, is answered 403 and
\* changes nothing (no record, no media-store call); every call that does
\* not carry it, of the owner or of another user, is answered 400 and
\* changes nothing either.
C11_ValidNotOwnerForbidden ==
    [][last' # last =>
          /\ (NotOwnerCall(last') /\ PassesValidation(last')) => ForbiddenStep
          /\ (/\ last'.op \in {"updateVideo", "updateComment"}
              /\ ~PassesValidation(last')) => BadRequestStep]_vars

\* u2 sent a video file for v1 of u1 and was answered 403; nothing was
\* uploaded.
C11_Witness ==
    /\ last.op = "updateVideo" /\ last.status = 403 /\ last.user = "u2"
    /\ last.body.videoFile
    /\ videos["v1"].owner = "u1"
    /\ assets = {"pv1", "pt1"} /\ nextId = 1

\* Whether, in the calls of a request, every delete of an asset comes
\* after a successful upload of the same kind, of another asset.
UploadBeforeDestroy(calls) ==
    \A i \in DOMAIN calls :
        calls[i].call = "destroy" =>
            \E j \in 1..(i - 1) :
                /\ calls[j].call = "upload" /\ calls[j].ok
                /\ calls[j].what.kind = calls[i].what.kind
                /\ calls[j].what.id # calls[i].what.id

\* C15: an updateVideo request issues the delete of the previous video
\* file or thumbnail only after its upload of the replacement succeeded;
\* after a failed upload it issues no delete of that kind.
C15_DeleteAfterUpload ==
    /\ \A s \in Slots : reqs[s].op = "updateVideo" => UploadBeforeDestroy(reqs[s].calls)
    /\ last.op = "updateVideo" => UploadBeforeDestroy(last.calls)

\* The video file was replaced and the old one deleted, then the upload of
\* the thumbnail failed: the old thumbnail is still in the media store.
C15_Witness ==
    /\ last.op = "updateVideo" /\ last.status = 500
    /\ Len(last.calls) = 3
    /\ last.calls[1].call = "upload" /\ last.calls[1].ok
    /\ last.calls[2].call = "destroy" /\ last.calls[2].ok
    /\ last.calls[3].call = "upload" /\ ~last.calls[3].ok
    /\ "pt1" \in assets /\ "pv1" \notin assets

\* A request without the calls it has issued.
Forget(r) == [r EXCEPT !.calls = <<>>]

\* C17: a media-store delete of deleteVideo or updateVideo, whether it
\* succeeds or fails, leaves the records as they are and the request to go
\* on in the same way: the next step of the handler does not depend on the
\* outcome.
C17_MediaDeleteBestEffort ==
    [][\A s \in Slots :
          (/\ reqs[s].op \in {"deleteVideo", "updateVideo"}
           /\ reqs[s].pc \in {"destroyVideo", "destroyThumb", "destroyOldVideo", "destroyOldThumb"}
           /\ reqs'[s] # reqs[s]) =>
              LET r == reqs[s]
                  pc == CASE r.pc = "destroyVideo" -> DeleteNextPc(r.doc, "video")
                          [] r.pc = "destroyThumb" -> DeleteNextPc(r.doc, "image")
                          [] r.pc = "destroyOldVideo" -> UpdateNextPc(r.body, "video")
                          [] r.pc = "destroyOldThumb" -> UpdateNextPc(r.body, "image")
              IN /\ UNCHANGED <<videos, comments, likes, last>>
                 /\ Forget(reqs'[s]) = Forget([r EXCEPT !.pc = pc])]_vars

\* A deleteVideo was answered with success although its delete of the
\* video file had failed: the asset is still in the media store.
C17_Witness ==
    /\ last.op = "deleteVideo" /\ last.status = 200
    /\ \E i \in DOMAIN last.calls : last.calls[i].call = "destroy" /\ ~last.calls[i].ok
    /\ "pv1" \in assets
    /\ videos = <<>>

----------------------------------------------------------------------------
(* Video controller: getAllVideos.                                         *)

\* The values a query-string parameter and a number take in the handler.
Undefined == [type |-> "undefined"]
Str(s) == [type |-> "string", chars |-> s]
Num(n) == [type |-> "number", nan |-> FALSE, n |-> n]
NaN == [type |-> "number", nan |-> TRUE, n |-> 0]

RECURSIVE Pow10(_)
Pow10(n) == IF n = 0 THEN 1 ELSE 10 * Pow10(n - 1)

\* Infinity and -Infinity.
Inf(sign) == [type |-> "number", nan |-> FALSE, n |-> 0, inf |-> sign]
IsInf(x) == "inf" \in DOMAIN x

\* The digits of the radixes 2, 8, 10 and 16, in either case.
RadixDigits ==
    <<"0", "1", "2", "3", "4", "5", "6", "7", "8", "9", "a", "b", "c", "d", "e", "f">>
RadixVal(c) == (CHOOSE i \in DOMAIN RadixDigits : RadixDigits[i] = ToLowerChar(c)) - 1
IsRadixDigit(c, radix) ==
    \E i \in 1..radix : RadixDigits[i] = ToLowerChar(c)
AllRadixDigits(s, radix) == Len(s) > 0 /\ \A i \in DOMAIN s : IsRadixDigit(s[i], radix)

RECURSIVE InRadix(_, _)
InRadix(s, radix) ==
    IF Len(s) = 0 THEN 0
    ELSE radix * InRadix(SubSeq(s, 1, Len(s) - 1), radix) + RadixVal(s[Len(s)])

\* Whether a string begins with "0" and one of the letters given.
HasPrefix(str, letters) == Len(str) >= 2 /\ str[1] = "0" /\ str[2] \in letters

\* The conversion to a number that - and * apply to an operand, on numbers
\* and on strings of digits and letters: the empty string is 0, digits are a
\* decimal, digits "e" digits are a decimal with an exponent, 0x, 0b and 0o
\* are followed by the digits of a hexadecimal, binary and octal number,
\* "Infinity" is Infinity, and any other such string is NaN.
ToNumber(x) ==
    IF x.type = "number" THEN x
    ELSE IF x.type = "undefined" THEN NaN
    ELSE LET str == x.chars
             IsExp(i) == /\ str[i] \in {"e", "E"}
                         /\ AllRadixDigits(SubSeq(str, 1, i - 1), 10)
                         /\ AllRadixDigits(SubSeq(str, i + 1, Len(str)), 10)
             radix == IF HasPrefix(str, {"x", "X"}) THEN 16
                      ELSE IF HasPrefix(str, {"b", "B"}) THEN 2
                      ELSE IF HasPrefix(str, {"o", "O"}) THEN 8
                      ELSE 10
         IN IF Len(str) = 0 THEN Num(0)
            ELSE IF AllRadixDigits(str, 10) THEN Num(InRadix(str, 10))
            ELSE IF \E i \in DOMAIN str : IsExp(i)
            THEN LET i == CHOOSE k \in DOMAIN str : IsExp(k)
                 IN Num(InRadix(SubSeq(str, 1, i - 1), 10)
                          * Pow10(InRadix(SubSeq(str, i + 1, Len(str)), 10)))
            ELSE IF radix # 10 /\ AllRadixDigits(SubSeq(str, 3, Len(str)), radix)
            THEN Num(InRadix(SubSeq(str, 3, Len(str)), radix))
            ELSE IF str = <<"I", "n", "f", "i", "n", "i", "t", "y">> THEN Inf(1)
            ELSE NaN

\* parseInt(x), on the same values: after 0x or 0X the hexadecimal of the
\* longest prefix of hexadecimal digits, otherwise the decimal of the
\* longest prefix of digits, NaN when there is none; an integer is read
\* from its own digits, which give it back, and NaN and the infinite numbers
\* from their names, which give NaN.
ParseInt(x) ==
    IF x.type = "number" THEN (IF IsInf(x) THEN NaN ELSE x)
    ELSE IF x.type = "undefined" THEN NaN
    ELSE LET radix == IF HasPrefix(x.chars, {"x", "X"}) THEN 16 ELSE 10
             str == IF radix = 16 THEN SubSeq(x.chars, 3, Len(x.chars)) ELSE x.chars
             n == CHOOSE k \in 0..Len(str) :
                     /\ \A i \in 1..k : IsRadixDigit(str[i], radix)
                     /\ k < Len(str) => ~IsRadixDigit(str[k + 1], radix)
         IN IF n = 0 THEN NaN ELSE Num(InRadix(SubSeq(str, 1, n), radix))

\* a - b and a * b on numbers.
Minus(a, b) ==
    IF a.nan \/ b.nan THEN NaN
    ELSE IF IsInf(a) /\ IsInf(b) THEN (IF a.inf = b.inf THEN NaN ELSE a)
    ELSE IF IsInf(a) THEN a
    ELSE IF IsInf(b) THEN Inf(-b.inf)
    ELSE Num(a.n - b.n)
Times(a, b) ==
    LET Sign(x) == IF IsInf(x) THEN x.inf ELSE IF x.n > 0 THEN 1 ELSE IF x.n < 0 THEN -1 ELSE 0
    IN IF a.nan \/ b.nan THEN NaN
       ELSE IF IsInf(a) \/ IsInf(b)
       THEN (IF Sign(a) * Sign(b) = 0 THEN NaN ELSE Inf(Sign(a) * Sign(b)))
       ELSE Num(a.n * b.n)

UpperLetters ==
    <<"A", "B", "C", "D", "E", "F", "G", "H", "I", "J", "K", "L", "M",
      "N", "O", "P", "Q", "R", "S", "T", "U", "V", "W", "X", "Y", "Z">>
LowerLetters ==
    <<"a", "b", "c", "d", "e", "f", "g", "h", "i", "j", "k", "l", "m",
      "n", "o", "p", "q", "r", "s", "t", "u", "v", "w", "x", "y", "z">>

\* The case folding of $options: "i".
FoldChar(c) ==
    IF \E i \in DOMAIN UpperLetters : UpperLetters[i] = c
    THEN LowerLetters[CHOOSE i \in DOMAIN UpperLetters : UpperLetters[i] = c]
    ELSE c

\* {$regex: pattern, $options: "i"} on a string field, for patterns of
\* letters, digits and ".": the pattern matches at some position of the
\* text, a letter matching itself in either case and "." any character.
RegexTest(pattern, text) ==
    \E i \in 0..(Len(text) - Len(pattern)) :
        \A j \in DOMAIN pattern :
            pattern[j] = "." \/ FoldChar(pattern[j]) = FoldChar(text[i + j])

\* The first $match: on the query, when one is given.
MatchQuery(ids, query) ==
    IF Len(query) > 0
    THEN {v \in ids : \/ RegexTest(query, videos[v].title)
                      \/ RegexTest(query, videos[v].description)}
    ELSE ids

\* The second $match: on the owner, when a userId is given.
MatchOwner(ids, userId) ==
    IF Len(userId) > 0
    THEN {v \in ids : videos[v].owner = CastObjectId(userId)}
    ELSE ids

\* The $sort stage: the field and direction asked for when both are given,
\* createdAt descending otherwise.
SortStage(sortBy, sortType) ==
    IF sortBy # "" /\ sortType # ""
    THEN [field |-> sortBy, dir |-> IF sortType = "asc" THEN 1 ELSE -1]
    ELSE [field |-> "createdAt", dir |-> -1]

\* The characters of the strings of the model in the order of their code
\* points, which is the order the database compares strings in.
CodePoints ==
    <<" ", ".">> \o SubSeq(RadixDigits, 1, 10) \o UpperLetters \o LowerLetters

\* -1, 0 or 1: the order of two strings.
RECURSIVE StrCompare(_, _)
StrCompare(a, b) ==
    LET CodePoint(c) == CHOOSE i \in DOMAIN CodePoints : CodePoints[i] = c
    IN IF Len(a) = 0 /\ Len(b) = 0 THEN 0
       ELSE IF Len(a) = 0 THEN -1
       ELSE IF Len(b) = 0 THEN 1
       ELSE IF CodePoint(a[1]) < CodePoint(b[1]) THEN -1
       ELSE IF CodePoint(a[1]) > CodePoint(b[1]) THEN 1
       ELSE StrCompare(Tail(a), Tail(b))

\* A sort key: t is the rank of its type in the order of the database (null
\* before numbers before strings before ObjectIds before booleans before
\* dates), n its number and s its string.
SortKey(t, n, str) == [t |-> t, n |-> n, s |-> str]

\* sort[sortBy]: the key of a video under the field named, for _id, title,
\* description, views, isPublished, owner and createdAt; a field that no
\* document holds is null in every document.
SortField(v, field) ==
    CASE field = "_id" -> SortKey(7, 0, Hex(v))
      [] field = "title" -> SortKey(3, 0, videos[v].title)
      [] field = "description" -> SortKey(3, 0, videos[v].description)
      [] field = "views" -> SortKey(2, videos[v].views, <<>>)
      [] field = "isPublished" -> SortKey(8, IF videos[v].isPublished THEN 1 ELSE 0, <<>>)
      [] field = "owner" -> SortKey(7, 0, Hex(videos[v].owner))
      [] field = "createdAt" -> SortKey(9, videos[v].createdAt, <<>>)
      [] OTHER -> SortKey(1, 0, <<>>)

\* -1, 0 or 1: the order of two sort keys.
KeyCompare(a, b) ==
    IF a.t # b.t THEN (IF a.t < b.t THEN -1 ELSE 1)
    ELSE IF a.n # b.n THEN (IF a.n < b.n THEN -1 ELSE 1)
    ELSE StrCompare(a.s, b.s)

\* The orders $sort can produce: documents with equal keys come in an order
\* the database does not fix.
SortOrders(ids, sort) ==
    {q \in [1..Cardinality(ids) -> ids] :
        /\ \A i, j \in DOMAIN q : i # j => q[i] # q[j]
        /\ \A i, j \in DOMAIN q :
              i < j => sort.dir * KeyCompare(SortField(q[j], sort.field),
                                             SortField(q[i], sort.field)) >= 0}

\* $skip then $limit.
Window(q, skip, limit) ==
    IF skip >= Len(q) THEN <<>>
    ELSE SubSeq(q, skip + 1, IF skip + limit < Len(q) THEN skip + limit ELSE Len(q))

\* $lookup of the owner, $unwind keeping videos without one, $project.
VideoSummary(v) ==
    [_id |-> v, title |-> videos[v].title, description |-> videos[v].description,
     views |-> videos[v].views, createdAt |-> videos[v].createdAt,
     owner |-> IF videos[v].owner \in UserIds THEN [_id |-> videos[v].owner] ELSE NoDoc]

\* req.query of a getAllVideos request.  An empty query, sortBy, sortType
\* or userId stands for an absent one as well: the handler only tests them
\* for truth.
ListQuery(page, limit, query, sortBy, sortType, userId) ==
    [page |-> page, limit |-> limit, query |-> query, sortBy |-> sortBy,
     sortType |-> sortType, userId |-> userId]

\* getAllVideos: the defaults of page and limit, the validation of userId,
\* the pipeline and its one aggregate call, which the database rejects when
\* $skip is not a non-negative integer (NaN and Infinity are not) or $limit
\* not a positive one.
GetAllVideos(s) ==
    /\ Busy(s) /\ reqs[s].op = "getAllVideos"
    /\ UNCHANGED <<videos, comments, likes, subs, assets, nextId>>
    /\ LET a == reqs[s].arg
           page == IF a.page.type = "undefined" THEN Num(1) ELSE a.page
           limit == IF a.limit.type = "undefined" THEN Num(10) ELSE a.limit
           skip == Times(Minus(ToNumber(page), Num(1)), ToNumber(limit))
           lim == ParseInt(limit)
           matched == MatchOwner(MatchQuery(DOMAIN videos, a.query), a.userId)
       IN IF Len(a.userId) > 0 /\ ~ObjectIdIsValid(a.userId)
          THEN Finish(s, Resp("getAllVideos", NoId, a, 400, NoData))
          ELSE IF skip.nan \/ IsInf(skip) \/ skip.n < 0 \/ lim.nan \/ lim.n < 1
          THEN Finish(s, Resp("getAllVideos", NoId, a, 500, NoData))
          ELSE \E q \in SortOrders(matched, SortStage(a.sortBy, a.sortType)) :
                  LET page_ == Window(q, skip.n, lim.n)
                  IN Finish(s, Resp("getAllVideos", NoId, a, 200,
                                    [videos |-> [i \in DOMAIN page_ |-> VideoSummary(page_[i])]]))

\* The strings a request carries as page or limit, and as query.
PageStrings == {<<"0">>, <<"1">>, <<"2">>, <<"0", "x", "2">>}
LimitStrings == {<<"0">>, <<"1">>, <<"2">>, <<"1", "e", "1">>, <<"2", "a">>, <<"0", "x", "2">>}
QueryStrings ==
    {<<>>, <<"c", "a", "t">>, <<"A", "T">>, <<"c", ".", "t">>, <<".">>, <<"z">>}

\* Three videos, and one getAllVideos request received.
InitList ==
    /\ videos = [v \in {"v1", "v2", "v3"} |->
                   CASE v = "v1" -> [VideoDoc("u1", <<"c", "a", "t">>, <<>>, 1, "pv1", "pt1")
                                       EXCEPT !.views = 1]
                     [] v = "v2" -> VideoDoc("u2", <<"C", "o", "t">>, <<"a", ".", "b">>, 2, "pv2", "pt2")
                     [] v = "v3" -> VideoDoc("u1", <<"d", "o", "g">>, <<"a", " ", "C", "A", "T">>, 3, "pv3", "pt3")]
    /\ comments = <<>>
    /\ likes = {}
    /\ subs = {}
    /\ assets = AssetsOf(videos)
    /\ nextId = 1
    /\ \E page \in {Undefined} \cup {Str(c) : c \in PageStrings},
          limit \in {Undefined} \cup {Str(c) : c \in LimitStrings},
          query \in QueryStrings,
          sortBy \in {"", "createdAt", "views", "title"},
          sortType \in {"", "asc", "desc"},
          userId \in {<<>>, Hex("u1"), <<"x", "y", "z">>} :
          reqs = [s \in Slots |->
                    IF s = 1
                    THEN [Req("getAllVideos", NoId,
                              ListQuery(page, limit, query, sortBy, sortType, userId),
                              "aggregate")
                            EXCEPT !.alone = TRUE]
                    ELSE Idle]
    /\ last = NoResp
    /\ prev = NoResp
    /\ served = [v \in VideoIds |-> 0]

NextList == \E s \in Slots : GetAllVideos(s)

SpecList == InitList /\ [][NextList]_vars

\* Whether text contains q, letters compared without regard to case.
Contains(text, q) ==
    \E i \in 0..(Len(text) - Len(q)) :
        \A j \in DOMAIN q : FoldChar(text[i + j]) = FoldChar(q[j])

\* C10: a getAllVideos answered with success lists a window of the videos
\* whose title or description contains the query (of all videos without a
\* query), of the owner asked for if any, in the order asked for or newest
\* first: the (page-1)*limit first ones skipped, at most limit returned.
C10_ListIsWindow ==
    (last.op = "getAllVideos" /\ last.status = 200) =>
        LET a == last.arg
            page == IF a.page.type = "undefined" THEN Num(1) ELSE ToNumber(a.page)
            limit == IF a.limit.type = "undefined" THEN Num(10) ELSE ToNumber(a.limit)
            wanted == {v \in DOMAIN videos :
                         /\ Len(a.query) > 0 =>
                               \/ Contains(videos[v].title, a.query)
                               \/ Contains(videos[v].description, a.query)
                         /\ Len(a.userId) > 0 => videos[v].owner = CastObjectId(a.userId)}
            listed == [i \in DOMAIN last.data.videos |-> last.data.videos[i]._id]
        IN \E q \in SortOrders(wanted, SortStage(a.sortBy, a.sortType)) :
              listed = Window(q, (page.n - 1) * limit.n, limit.n)

----------------------------------------------------------------------------
(* Subscription controller.                                                *)

\* Subscription.findOne({subscriber, channel}): the matching documents; the
\* one returned is the first in natural order, which the code does not fix.
SubMatches(subscriber, channel) ==
    {d \in subs : d.subscriber = subscriber /\ d.channel = channel}

\* The Subscription schema declares no unique index on (subscriber, channel):
\* create never fails on a duplicate.
SubscriptionUniqueIndex == FALSE

\* The self-subscription test on the two toString() values.
IsOwnChannel(subscriberId, channelId) ==
    Hex(subscriberId) = StrToString(channelId)

\* toggleSubscription up to its first await: authentication, id validation,
\* User.findById, the self-subscription test.
ToggleSubscriptionBegin(s, user, channelId) ==
    /\ FreeSlot(s)
    /\ UNCHANGED <<videos, comments, likes, subs, nextId, assets>>
    /\ IF user = NoId
       THEN Answer(Resp("toggleSubscription", user, channelId, 401, NoData))
       ELSE IF ~ObjectIdIsValid(channelId)
       THEN Answer(Resp("toggleSubscription", user, channelId, 400, NoData))
       ELSE IF CastObjectId(channelId) \notin UserIds
       THEN Answer(Resp("toggleSubscription", user, channelId, 404, NoData))
       ELSE IF IsOwnChannel(user, channelId)
       THEN Answer(Resp("toggleSubscription", user, channelId, 400, NoData))
       ELSE Begin(s, Req("toggleSubscription", user, channelId, "findOne"))

\* await Subscription.findOne(...)
ToggleSubscriptionFind(s) ==
    /\ reqs[s].op = "toggleSubscription" /\ reqs[s].pc = "findOne"
    /\ UNCHANGED <<videos, comments, likes, subs, nextId, assets>>
    /\ LET m == SubMatches(reqs[s].user, CastObjectId(reqs[s].arg)) IN
       IF m = {}
       THEN Continue(s, [reqs[s] EXCEPT !.pc = "write", !.doc = NoDoc])
       ELSE \E d \in m : Continue(s, [reqs[s] EXCEPT !.pc = "write", !.doc = d])

\* await Subscription.deleteOne({_id}) or await Subscription.create(...),
\* then the response.
ToggleSubscriptionWrite(s) ==
    /\ reqs[s].op = "toggleSubscription" /\ reqs[s].pc = "write"
    /\ UNCHANGED <<videos, comments, likes, assets>>
    /\ IF reqs[s].doc._id # 0
       THEN /\ subs' = {d \in subs : d._id # reqs[s].doc._id}
            /\ UNCHANGED nextId
            /\ Finish(s, Resp("toggleSubscription", reqs[s].user, reqs[s].arg, 200,
                              [isSubscribed |-> FALSE, channelId |-> reqs[s].arg]))
       ELSE IF SubscriptionUniqueIndex
               /\ SubMatches(reqs[s].user, CastObjectId(reqs[s].arg)) # {}
       THEN /\ UNCHANGED <<subs, nextId>>
            /\ Finish(s, Resp("toggleSubscription", reqs[s].user, reqs[s].arg, 500, NoData))
       ELSE /\ nextId <= MaxIds
            /\ subs' = subs \cup {[_id |-> nextId, subscriber |-> reqs[s].user,
                                   channel |-> CastObjectId(reqs[s].arg)]}
            /\ nextId' = nextId + 1
            /\ Finish(s, Resp("toggleSubscription", reqs[s].user, reqs[s].arg, 200,
                              [isSubscribed |-> TRUE, channelId |-> reqs[s].arg]))

InitSubs ==
    /\ videos = <<>>
    /\ comments = <<>>
    /\ likes = {}
    /\ subs = {}
    /\ assets = AssetsOf(videos)
    /\ nextId = 1
    /\ reqs = [s \in Slots |-> Idle]
    /\ last = NoResp
    /\ prev = NoResp
    /\ served = [v \in VideoIds |-> 0]

NextSubs ==
    \/ \E s \in Slots, user \in Callers, channelId \in IdStrings(UserIds \cup {GhostUser}) \cup {Upper(Hex("u1"))} :
          ToggleSubscriptionBegin(s, user, channelId)
    \/ \E s \in Slots : ToggleSubscriptionFind(s)
    \/ \E s \in Slots : ToggleSubscriptionWrite(s)

SpecSubs == InitSubs /\ [][NextSubs]_vars

\* C7: a toggleSubscription call whose channel id is the caller's own id is
\* answered with 400 or 403, and no Subscription has its subscriber as its
\* channel.
C7_SelfSubscriptionRejected ==
    /\ (/\ last.op = "toggleSubscription"
        /\ last.user # NoId
        /\ ObjectIdIsValid(last.arg)
        /\ CastObjectId(last.arg) = last.user) => last.status \in {400, 403}
    /\ \A d \in subs : d.subscriber # d.channel

\* C8: with no request in flight, a (subscriber, channel) pair has at most
\* one Subscription.
C8_OneSubscriptionPerPair ==
    Quiescent =>
        \A d1, d2 \in subs :
            (d1.subscriber = d2.subscriber /\ d1.channel = d2.channel) => d1 = d2


\* The Subscriptions of a collection without their _id, with their
\* multiplicity.
SubContent(S) ==
    LET strip(d) == [subscriber |-> d.subscriber, channel |-> d.channel]
    IN [c \in {strip(d) : d \in S} |-> Cardinality({d \in S : strip(d) = c})]

\* Whether collection S holds a Subscription of the (subscriber, channel)
\* pair of toggle r.
PairSubscribed(S, r) ==
    \E d \in S : d.subscriber = r.user /\ d.channel = CastObjectId(r.arg)

\* A response that answers with success, to a request that ran alone, a
\* toggleSubscription on a channel other than the caller.
AloneToggleSub(r) ==
    /\ AloneOk(r) /\ r.op = "toggleSubscription"
    /\ CastObjectId(r.arg) # r.user

\* C21: a toggleSubscription that runs alone, on an existing channel other
\* than the caller, leaves the pair subscribed exactly when it was not
\* before, answers isSubscribed as the pair is afterwards and the channel id
\* as requested; two such calls in a row leave the Subscriptions as they
\* were.
C21_ToggleSubscription ==
    /\ (Quiescent /\ AloneToggleSub(last)) =>
          /\ PairSubscribed(subs, last) = ~PairSubscribed(last.pre.subs, last)
          /\ last.data.isSubscribed = PairSubscribed(subs, last)
          /\ last.data.channelId = last.arg
    /\ (/\ Quiescent
        /\ AloneToggleSub(last) /\ AloneToggleSub(prev)
        /\ SameCall(prev, last)) =>
          SubContent(subs) = SubContent(prev.pre.subs)

----------------------------------------------------------------------------
(* Like controller: concurrent toggles and deletes.                        *)

\* The request in slot s is a toggle that has observed, with findOne, a
\* Like of its own (target, liker) pair.
ObservedPresent(s) ==
    /\ IsToggleLike(reqs[s]) /\ reqs[s].pc = "write"
    /\ reqs[s].doc # NoDoc
    /\ PairLiked({reqs[s].doc}, reqs[s])

\* Another request of the same call has observed the Like too and has not
\* issued its delete yet.
FirstOfTwo(s) ==
    \E t \in Slots \ {s} : SameCall(reqs[t], reqs[s]) /\ ObservedPresent(t)

\* A request of the same call was answered isLiked = false while this one
\* was in flight.
SecondOfTwo(s) ==
    /\ last.op # "none" /\ SameCall(last, reqs[s])
    /\ last.status = 200 /\ ~last.alone
    /\ ~last.data.isLiked

\* C22: when two concurrent toggles of the same (target, liker) pair both
\* observe the Like, each delete step answers 200 with isLiked = false and
\* removes nothing but the Like it observed, and after the second one no
\* Like of the pair is left.
C22_DoubleUnlikeHarmless ==
    [][\A s \in Slots :
          (/\ ObservedPresent(s)
           /\ reqs'[s] = Idle
           /\ FirstOfTwo(s) \/ SecondOfTwo(s)) =>
              /\ last'.status = 200 /\ ~last'.data.isLiked
              /\ likes' = likes \ {reqs[s].doc}
              /\ SecondOfTwo(s) => ~PairLiked(likes', reqs[s])]_vars

\* C23: a toggleVideoLike(V, U) creates or deletes only Likes of video V
\* itself, never a Like of a comment; and when it runs alone and U has no
\* Like of V itself, it creates one and answers isLiked = true, whatever
\* comments of V the user has liked.
C23_VideoToggleTouchesVideoLikes ==
    [][\A s \in Slots :
          Answers(s, "toggleVideoLike") =>
              LET r == reqs[s]
                  touched == (likes \ likes') \cup (likes' \ likes)
              IN /\ \A d \in touched : IsVideoLike(d) /\ d.video = CastObjectId(r.arg)
                 /\ (r.alone /\ ~PairLiked(likes, r)) =>
                       /\ last'.status = 200 /\ last'.data.isLiked
                       /\ PairLiked(likes', r)]_vars

----------------------------------------------------------------------------
(* Comment controller: addComment, and the references of Likes and         *)
(* Comments under concurrent deletes.                                      *)

\* The _id of the comments addComment creates, in order of creation.
NewCommentIds == <<"c2", "c3", "c4", "c5">>

\* addComment up to Comment.create: validation, the authentication test,
\* Video.findById.
AddCommentBegin(s, user, videoId, content) ==
    /\ FreeSlot(s)
    /\ UNCHANGED <<videos, comments, likes, subs, nextId, assets>>
    /\ IF ContentMissing(content)
       THEN Answer([Resp("addComment", user, videoId, 400, NoData) EXCEPT !.body = content])
       ELSE IF Len(videoId) = 0 \/ ~ObjectIdIsValid(videoId)
       THEN Answer([Resp("addComment", user, videoId, 400, NoData) EXCEPT !.body = content])
       ELSE IF user = NoId
       THEN Answer([Resp("addComment", user, videoId, 401, NoData) EXCEPT !.body = content])
       ELSE IF FindById(videos, CastObjectId(videoId)) = NoDoc
       THEN Answer([Resp("addComment", user, videoId, 404, NoData) EXCEPT !.body = content])
       ELSE Begin(s, [Req("addComment", user, videoId, "create") EXCEPT !.body = content])

\* await Comment.create({content: content.trim(), video: videoId, owner: userId})
AddCommentCreate(s) ==
    /\ reqs[s].op = "addComment" /\ reqs[s].pc = "create"
    /\ nextId <= MaxIds
    /\ UNCHANGED <<videos, likes, subs, assets>>
    /\ LET r == reqs[s]
           id == NewCommentIds[nextId]
           createdComment == [video |-> CastObjectId(r.arg), owner |-> r.user,
                              content |-> Trim(r.body)]
       IN /\ comments' = [c \in DOMAIN comments \cup {id} |->
                            IF c = id THEN createdComment ELSE comments[c]]
          /\ nextId' = nextId + 1
          /\ Continue(s, Issued([r EXCEPT !.pc = "populate", !.fields = [_id |-> id]],
                                Call("Comment.create", id, TRUE)))

\* await Comment.findById(createdComment._id).populate(...).populate(...),
\* then the response: 201 with the populated comment.
AddCommentPopulate(s) ==
    /\ reqs[s].op = "addComment"
    /\ reqs[s].pc \in {"populate", "populateBoth", "populateOwner", "populateVideo"}
    /\ UNCHANGED <<videos, comments, likes, subs, nextId, assets>>
    /\ \E path \in {"owner", "video"} : PopulateStep(s, reqs[s].fields._id, 201, path)

\* toggleVideoLike, toggleCommentLike and addComment of u2 on video v1 of
\* u1 and on its comment c1 (of u2), with deleteVideo of u1 and
\* deleteComment of u2, interleaved.
NextOrphan ==
    \/ \E s \in Slots : ToggleVideoLikeBegin(s, "u2", Hex("v1"))
    \/ \E s \in Slots : ToggleVideoLikeFind(s)
    \/ \E s \in Slots : ToggleVideoLikeWrite(s)
    \/ \E s \in Slots : ToggleCommentLikeBegin(s, "u2", Hex("c1"))
    \/ \E s \in Slots : ToggleCommentLikeFind(s)
    \/ \E s \in Slots : ToggleCommentLikeWrite(s)
    \/ \E s \in Slots, content \in {<<" ">>, <<" ", "o", "k">>} :
          AddCommentBegin(s, "u2", Hex("v1"), content)
    \/ \E s \in Slots : AddCommentCreate(s)
    \/ \E s \in Slots : AddCommentPopulate(s)
    \/ \E s \in Slots : DeleteVideoBegin(s, "u1", Hex("v1"))
    \/ \E s \in Slots, ok \in BOOLEAN : DeleteVideoDestroy(s, ok)
    \/ \E s \in Slots : DeleteVideoLikes(s)
    \/ \E s \in Slots : DeleteVideoComments(s)
    \/ \E s \in Slots : DeleteVideoRecord(s)
    \/ \E s \in Slots : DeleteCommentBegin(s, "u2", Hex("c1"))
    \/ \E s \in Slots : DeleteCommentLikes(s)
    \/ \E s \in Slots : DeleteCommentRecord(s)

SpecOrphan == InitLikes /\ [][NextOrphan]_vars

\* C24: with no request in flight, every Like and every Comment refers to
\* a stored Video, and every Like of a comment refers to a stored Comment.
C24_NoOrphans ==
    Quiescent =>
        /\ \A d \in likes : d.video # NoId => d.video \in DOMAIN videos
        /\ \A c \in DOMAIN comments : comments[c].video \in DOMAIN videos
        /\ \A d \in likes : d.comment # NoId => d.comment \in DOMAIN comments

----------------------------------------------------------------------------
(* Video controller: the media references of the stored videos.            *)

\* The assets that the calls of a request deleted from the media store.
Destroyed(calls) ==
    {calls[i].what.id : i \in {j \in DOMAIN calls : calls[j].call = "destroy" /\ calls[j].ok}}

\* C25: once updateVideo has answered, with success or with an error, the
\* video file and the thumbnail that the Video record names are not among
\* the assets the request deleted from the media store.
C25_RecordNamesKeptAssets ==
    (last.op = "updateVideo" /\ ObjectIdIsValid(last.arg)
       /\ CastObjectId(last.arg) \in DOMAIN videos) =>
        LET video == videos[CastObjectId(last.arg)]
        IN /\ video.videoPublicId \notin Destroyed(last.calls)
           /\ video.thumbnailPublicId \notin Destroyed(last.calls)

\* The assets in the media store that publishAVideo or updateVideo
\* uploaded.
UploadedAssets == {UploadIds[i] : i \in 1..(nextId - 1)} \cap assets

\* No call of the last request answered is a media-store delete that failed.
NoDeleteFailed ==
    last.op \in {"updateVideo", "deleteVideo"} =>
        \A i \in DOMAIN last.calls : last.calls[i].call = "destroy" => last.calls[i].ok

\* C26: with no request in flight and no failed media-store delete, every
\* uploaded asset in the media store is named by a Video record.
C26_NoUnreferencedUploads ==
    (Quiescent /\ NoDeleteFailed) => UploadedAssets \subseteq AssetsOf(videos)

====
